---- MODULE Spec2Model ----
(***************************************************************************)
(* A model of src/real-time/server.js: the real-time text-to-speech server *)
(* (POST /stream, POST /conversation, the /ws WebSocket channel and the    *)
(* in-memory conversation store).                                          *)
(*                                                                         *)
(* Texts are sequences of one-character strings.  Offsets into a text are  *)
(* 0-based, as in JavaScript: the character at offset p of s is s[p + 1].  *)
(* Durations are integer milliseconds.                                     *)
(***************************************************************************)
EXTENDS Integers, Sequences, FiniteSets, TLC

\* ------------------------------------------------------------------------
\* JavaScript strings
\* ------------------------------------------------------------------------

Max(S) == CHOOSE x \in S : \A y \in S : y <= x

Min(S) == CHOOSE x \in S : \A y \in S : x <= y

\* \s of a JavaScript regular expression (the characters the inputs use)
Whitespace == {" ", "\t", "\n"}

\* \w of a JavaScript regular expression
WordChars ==
    { "a", "b", "c", "d", "e", "f", "g", "h", "i", "j", "k", "l", "m",
      "n", "o", "p", "q", "r", "s", "t", "u", "v", "w", "x", "y", "z",
      "A", "B", "C", "D", "E", "F", "G", "H", "I", "J", "K", "L", "M",
      "N", "O", "P", "Q", "R", "S", "T", "U", "V", "W", "X", "Y", "Z",
      "0", "1", "2", "3", "4", "5", "6", "7", "8", "9", "_" }

\* [A-Z]
Capitals ==
    { "A", "B", "C", "D", "E", "F", "G", "H", "I", "J", "K", "L", "M",
      "N", "O", "P", "Q", "R", "S", "T", "U", "V", "W", "X", "Y", "Z" }

\* s.substring(a, b)
substring(s, a, b) == SubSeq(s, a + 1, b)

\* the length of the run of whitespace of s that starts at offset p
WsRun(s, p) ==
    Max({ q \in p .. Len(s) : \A k \in (p + 1) .. q : s[k] \in Whitespace }) - p

\* the length of the run of whitespace of s that ends at offset p (exclusive)
WsRunBack(s, p) ==
    p - Min({ q \in 0 .. p : \A k \in (q + 1) .. p : s[k] \in Whitespace })

\* s.trim()
trim(s) ==
    IF WsRun(s, 0) = Len(s) THEN << >>
    ELSE substring(s, WsRun(s, 0), Len(s) - WsRunBack(s, Len(s)))

\* s ends with suffix
EndsWith(s, suffix) ==
    /\ Len(suffix) <= Len(s)
    /\ substring(s, Len(s) - Len(suffix), Len(s)) = suffix

\* s.lastIndexOf(' ', from): the last offset <= from that holds a space, or -1
lastIndexOf(s, from) ==
    LET hits == { p \in 0 .. (Len(s) - 1) : p <= from /\ s[p + 1] = " " }
    IN  IF hits = {} THEN -1 ELSE Max(hits)

\* ------------------------------------------------------------------------
\* chunkText
\* ------------------------------------------------------------------------

\* the lookbehind list of the sentence split: no break after these
Abbreviations ==
    { <<"M", "r", ".">>, <<"M", "r", "s", ".">>, <<"M", "s", ".">>,
      <<"D", "r", ".">>, <<"P", "r", "o", "f", ".">>, <<"S", "r", ".">>,
      <<"J", "r", ".">>, <<"P", "h", ".", "D", ".">>, <<"e", "t", "c", ".">>,
      <<"e", ".", "g", ".">>, <<"i", ".", "e", ".">>, <<"v", "s", ".">>,
      <<"I", "n", "c", ".">>, <<"L", "t", "d", ".">>, <<"C", "o", ".">>,
      <<"C", "o", "r", "p", ".">>, <<"S", "t", ".">>, <<"A", "v", "e", ".">>,
      <<"B", "l", "v", "d", ".">> }

\* (?<!\b[A-Z]\.) fails at offset p: a capital letter that starts a word,
\* then a period, end right before p
AfterInitial(s, p) ==
    /\ p >= 2
    /\ s[p] = "."
    /\ s[p - 1] \in Capitals
    /\ (p = 2 \/ s[p - 2] \notin WordChars)

\* the sentence separator matches at offset p:
\* (?<!Mr\.|...)(?<!\b[A-Z]\.)(?<=[.!?])\s+
SentenceBreakAt(s, p) ==
    /\ p >= 1
    /\ p < Len(s)
    /\ s[p + 1] \in Whitespace
    /\ s[p] \in {".", "!", "?"}
    /\ \A a \in Abbreviations : ~EndsWith(substring(s, 0, p), a)
    /\ ~AfterInitial(s, p)

\* the paragraph separator /\n\s*\n+/ matches at offset p; its length is
\* ParagraphBreakLen: up to and including the last newline of the whitespace run
ParagraphBreakAt(s, p) ==
    /\ p < Len(s)
    /\ s[p + 1] = "\n"
    /\ \E k \in (p + 2) .. (p + WsRun(s, p)) : s[k] = "\n"

ParagraphBreakLen(s, p) ==
    Max({ k \in (p + 2) .. (p + WsRun(s, p)) : s[k] = "\n" }) - p

\* paragraph.split(sentence separator): the pieces of s from offset `from`
\* on, cutting at the leftmost separator each time
RECURSIVE SplitSentences(_, _)
SplitSentences(s, from) ==
    LET hits == { p \in from .. (Len(s) - 1) : SentenceBreakAt(s, p) }
    IN  IF hits = {} THEN << substring(s, from, Len(s)) >>
        ELSE LET p == Min(hits)
             IN  << substring(s, from, p) >>
                     \o SplitSentences(s, p + WsRun(s, p))

\* text.split(paragraph separator)
RECURSIVE SplitParagraphs(_, _)
SplitParagraphs(s, from) ==
    LET hits == { p \in from .. (Len(s) - 1) : ParagraphBreakAt(s, p) }
    IN  IF hits = {} THEN << substring(s, from, Len(s)) >>
        ELSE LET p == Min(hits)
             IN  << substring(s, from, p) >>
                     \o SplitParagraphs(s, p + ParagraphBreakLen(s, p))

\* (mutant) the packing loop does not count the joining space
RECURSIVE PackSentences_NoSpace(_, _, _, _)
PackSentences_NoSpace(sentences, currentChunk, chunks, maxLen) ==
    IF sentences = << >>
    THEN IF currentChunk # << >> THEN Append(chunks, trim(currentChunk))
         ELSE chunks
    ELSE LET sentence == Head(sentences)
         IN  IF Len(currentChunk) + Len(sentence) <= maxLen
             THEN PackSentences_NoSpace(
                      Tail(sentences),
                      currentChunk
                          \o (IF currentChunk # << >> THEN <<" ">> ELSE << >>)
                          \o sentence,
                      chunks, maxLen)
             ELSE PackSentences_NoSpace(
                      Tail(sentences), sentence,
                      IF currentChunk # << >>
                      THEN Append(chunks, trim(currentChunk)) ELSE chunks,
                      maxLen)

\* the greedy packing loop over the sentences of one paragraph
RECURSIVE PackSentences(_, _, _, _)
PackSentences(sentences, currentChunk, chunks, maxLen) ==
    IF sentences = << >>
    THEN IF currentChunk # << >> THEN Append(chunks, trim(currentChunk))
         ELSE chunks
    ELSE LET sentence == Head(sentences)
         IN  IF Len(currentChunk) + Len(sentence) + 1 <= maxLen
             THEN PackSentences(
                      Tail(sentences),
                      currentChunk
                          \o (IF currentChunk # << >> THEN <<" ">> ELSE << >>)
                          \o sentence,
                      chunks, maxLen)
             ELSE PackSentences(
                      Tail(sentences), sentence,
                      IF currentChunk # << >>
                      THEN Append(chunks, trim(currentChunk)) ELSE chunks,
                      maxLen)

RECURSIVE PackParagraphs(_, _, _)
PackParagraphs(paragraphs, chunks, maxLen) ==
    IF paragraphs = << >> THEN chunks
    ELSE LET paragraph == trim(Head(paragraphs))
         IN  IF paragraph = << >>
             THEN PackParagraphs(Tail(paragraphs), chunks, maxLen)
             ELSE PackParagraphs(
                      Tail(paragraphs),
                      PackSentences(
                          SplitSentences(paragraph, 0),
                          << >>, chunks, maxLen),
                      maxLen)

chunkText(text, maxLen) ==
    PackParagraphs(SplitParagraphs(trim(text), 0), << >>, maxLen)

\* ------------------------------------------------------------------------
\* Phrase detection of the conversational stream
\* ------------------------------------------------------------------------

minPhraseLength == 15

maxPhraseLength == 80

\* (mutant) the literal carries the g flag
sentenceEndingsFlags_Global == {"g"}

\* the flags of the literal /[.!?](?:\s+|$)/: none
sentenceEndingsFlags == { }

\* String.prototype.matchAll(regexp) throws a TypeError when the flags of
\* regexp do not contain "g"
matchAllThrows(flags) == "g" \notin flags

\* /[.!?](?:\s+|$)/ matches at offset p
SentenceEndingAt(s, p) ==
    /\ p < Len(s)
    /\ s[p + 1] \in {".", "!", "?"}
    /\ (p + 1 = Len(s) \/ s[p + 2] \in Whitespace)

\* /[;:]\s+/ matches at offset p
StrongBoundaryAt(s, p) ==
    /\ p + 1 < Len(s)
    /\ s[p + 1] \in {";", ":"}
    /\ s[p + 2] \in Whitespace

\* /,\s+/ matches at offset p
WeakBoundaryAt(s, p) ==
    /\ p + 1 < Len(s)
    /\ s[p + 1] = ","
    /\ s[p + 2] \in Whitespace

Offsets(s) == 0 .. (Len(s) - 1)

\* a match of one punctuation character and the whitespace after it ends here
MatchEnd(s, p) == p + 1 + WsRun(s, p + 1)

\* Priority 1: the last sentence ending
Priority1(s) ==
    LET hits == { p \in Offsets(s) : SentenceEndingAt(s, p) }
    IN  IF hits # {}
        THEN [shouldGenerate |-> TRUE, phraseEnd |-> MatchEnd(s, Max(hits))]
        ELSE [shouldGenerate |-> FALSE, phraseEnd |-> -1]

\* Priority 2: the first strong boundary, if far enough
Priority2(s, d) ==
    LET hits == { p \in Offsets(s) : StrongBoundaryAt(s, p) }
    IN  IF ~d.shouldGenerate /\ hits # {}
        THEN LET phraseEnd == MatchEnd(s, Min(hits))
             IN  [shouldGenerate |-> 10 * phraseEnd >= 7 * minPhraseLength,
                  phraseEnd |-> phraseEnd]
        ELSE d

\* Priority 2.5: the last space after the minimum length
Priority2half(s, d) ==
    IF /\ ~d.shouldGenerate
       /\ Len(s) >= minPhraseLength
       /\ 10 * lastIndexOf(s, Len(s)) >= 8 * minPhraseLength
    THEN [shouldGenerate |-> TRUE, phraseEnd |-> lastIndexOf(s, Len(s))]
    ELSE d

\* Priority 3: the first comma, if far enough
Priority3(s, d) ==
    LET hits == { p \in Offsets(s) : WeakBoundaryAt(s, p) }
    IN  IF ~d.shouldGenerate /\ Len(s) >= minPhraseLength * 2 /\ hits # {}
        THEN LET phraseEnd == MatchEnd(s, Min(hits))
             IN  [shouldGenerate |-> 10 * phraseEnd >= 13 * minPhraseLength,
                  phraseEnd |-> phraseEnd]
        ELSE d

\* Priority 4: forced cut
Priority4(s, d) ==
    IF ~d.shouldGenerate /\ Len(s) >= maxPhraseLength
    THEN LET lastSpace == lastIndexOf(s, maxPhraseLength)
         IN  IF lastSpace >= minPhraseLength
             THEN [shouldGenerate |-> TRUE, phraseEnd |-> lastSpace]
             ELSE IF 10 * Len(s) >= 13 * maxPhraseLength
             THEN [shouldGenerate |-> TRUE, phraseEnd |-> maxPhraseLength]
             ELSE d
    ELSE d

\* the cascade over currentSentence; threw: the matchAll call of Priority 1
\* threw, and none of the cascade ran
PhraseDetection(currentSentence) ==
    IF matchAllThrows(sentenceEndingsFlags)
    THEN [threw |-> TRUE, shouldGenerate |-> FALSE, phraseEnd |-> -1]
    ELSE LET d == Priority4(currentSentence,
                      Priority3(currentSentence,
                          Priority2half(currentSentence,
                              Priority2(currentSentence,
                                  Priority1(currentSentence)))))
         IN  [threw |-> FALSE, shouldGenerate |-> d.shouldGenerate,
              phraseEnd |-> d.phraseEnd]

\* currentSentence.substring(0, phraseEnd).replace(/^\s+/, '').replace(/\s+$/, ' ')
CompletePhrase(currentSentence, phraseEnd) ==
    LET cut == substring(currentSentence, 0, phraseEnd)
        lead == substring(cut, WsRun(cut, 0), Len(cut))
        back == WsRunBack(lead, Len(lead))
    IN  IF back = 0 THEN lead
        ELSE Append(substring(lead, 0, Len(lead) - back), " ")

\* ------------------------------------------------------------------------
\* The server: configuration and state
\* ------------------------------------------------------------------------

DEFAULT_VOICE == "M1.json"

DEFAULT_STEPS == 3

\* 1.4, in tenths
DEFAULT_SPEED == 14

DEFAULT_MODEL == "llama3.2"

\* the default system prompt, as a one-token text
DEFAULT_SYSTEM_PROMPT == <<"DEFAULT_SYSTEM_PROMPT">>

\* silenceDuration = 0.3, in milliseconds
silenceDuration == 300

\* the handler invocations that may be in progress at the same time
Tasks == {1, 2}

\* the number of requests a run receives
MaxRequests == 2

\* the number of lines the chat backend streams in answer to one request
MaxLines == 3

\* the conversation ids that clients use
SessionIds == {"t1", "t2"}

\* the conversation of each client, when each has its own
SidOf == <<"t1", "t2">>

VARIABLES
    server,         \* "starting", "listening" or "exited" (startServer)
    conversations,  \* the Map conversations: id -> reference of its array, 0: no entry
    heap,           \* the message arrays, by reference
    nreq,           \* the number of requests received; request n allocates array n
    task,           \* the locals of each handler invocation
    res,            \* what each handler invocation has written to its response / socket
    calls,          \* the external calls of each handler invocation (history)
    lines           \* the lines the chat backend has delivered to each invocation (history)

vars == <<server, conversations, heap, nreq, task, res, calls, lines>>

\* a handler invocation that has not started
Idle ==
    [pc |-> "idle", kind |-> "none", ws |-> FALSE, req |-> 0,
     conversationId |-> "none", messages |-> 0, model |-> "none",
     style |-> "none", steps |-> 0, speed |-> 0,
     chunks |-> << >>, i |-> 0, totalDuration |-> 0, chunkIndex |-> 0,
     fullResponse |-> << >>, currentSentence |-> << >>,
     phrase |-> << >>, final |-> FALSE, lineDone |-> FALSE,
     \* history: the text or message and the voice file of the request, and
     \* the messages of the conversation when the turn began
     input |-> [type |-> "undefined", str |-> << >>], file |-> "none",
     before |-> << >>]

\* a response nothing has been written to
NoResponse == [status |-> 0, error |-> "", events |-> << >>, ended |-> FALSE]

\* an absent field of a request body takes its default (0 and "undefined"
\* stand for an absent numeric and an absent string field)
OrDefault(v, absent, default) == IF v = absent THEN default ELSE v

\* !x || typeof x !== 'string'
NotAString(x) == x.type # "string" \/ x.str = << >>

\* conversations.get(conversationId) || []
GetConversation(conversationId) ==
    IF conversations[conversationId] = 0 THEN << >>
    ELSE heap[conversations[conversationId]]

\* the handler invocation t goes on as tk, having written events to the
\* response r (and ended it: res.end()), with cs as its external calls
Update(t, tk, r, events, end, cs) ==
    /\ task' = [task EXCEPT ![t] = tk]
    /\ res' = [res EXCEPT ![t] =
                  [r EXCEPT !.events = @ \o events, !.ended = (@ \/ end)]]
    /\ calls' = [calls EXCEPT ![t] = cs]

\* the call textToSpeech._infer([text], style, steps, speed), not yet answered
InferCall(tk, text) ==
    [fn |-> "_infer", text |-> text, style |-> tk.style, steps |-> tk.steps,
     speed |-> tk.speed, result |-> "pending", duration |-> 0]

\* the last call of cs has returned (result.duration[0]) or thrown
Returned(cs, outcome) ==
    [cs EXCEPT ![Len(cs)].result = IF outcome.ok THEN "ok" ELSE "throw",
               ![Len(cs)].duration = IF outcome.ok THEN outcome.duration ELSE 0]

\* base64 of audioToWavBuffer(result.wav.slice(0, wavLen), sampleRate): the
\* audio of a text, of the given duration
AudioData(text, duration) == [wavOf |-> text, ms |-> duration]

\* `conv_${Date.now()}`, for the readings 1 and 2 of the clock
GeneratedIds == <<"conv_1", "conv_2">>

\* the keys of the Map conversations: the ids that clients send and the
\* generated ones
Keys == SessionIds \cup {GeneratedIds[now] : now \in DOMAIN GeneratedIds}

Init ==
    /\ server = "starting"
    /\ conversations = [id \in Keys |-> 0]
    /\ heap = [r \in 1 .. MaxRequests |-> << >>]
    /\ nreq = 0
    /\ task = [t \in Tasks |-> Idle]
    /\ res = [t \in Tasks |-> NoResponse]
    /\ calls = [t \in Tasks |-> << >>]
    /\ lines = [t \in Tasks |-> << >>]

\* startServer: the server listens once the engine is loaded, and the
\* process exits when loading fails
StartServer(loaded) ==
    /\ server = "starting"
    /\ server' = IF loaded THEN "listening" ELSE "exited"
    /\ UNCHANGED <<conversations, heap, nreq, task, res, calls, lines>>

\* textToSpeech is set (non-null)
textToSpeech == server = "listening"

\* a handler invocation slot is free for request number nreq + 1
Free(t) ==
    /\ server = "listening"
    /\ task[t].pc \in {"idle", "done"}

\* the request is answered with an HTTP status and a JSON body
Reject(t, kind, input, file, status, error) ==
    /\ task' = [task EXCEPT ![t] =
                   [Idle EXCEPT !.pc = "done", !.kind = kind, !.req = nreq + 1,
                                !.input = input, !.file = file]]
    /\ res' = [res EXCEPT ![t] =
                  [NoResponse EXCEPT !.status = status, !.error = error,
                                     !.ended = TRUE]]
    /\ calls' = [calls EXCEPT ![t] = << >>]
    /\ lines' = [lines EXCEPT ![t] = << >>]
    /\ nreq' = nreq + 1
    /\ UNCHANGED <<server, conversations, heap>>

\* (mutant) the text of the request is not checked
Precondition_NoTextCheck(text, file) ==
    IF ~textToSpeech THEN [status |-> 503, error |-> "TTS not initialized"]
    ELSE IF file = "missing"
    THEN [status |-> 400, error |-> "Voice style not found"]
    ELSE IF file = "malformed"
    THEN [status |-> 500, error |-> "Failed to load voice style"]
    ELSE [status |-> 200, error |-> ""]

\* the checks of a POST handler before the stream opens: 200 when all pass.
\* file: what the file system holds for the voice ("ok", "missing", or
\* "malformed": loadVoiceStyle throws)
Precondition(text, file) ==
    IF ~textToSpeech THEN [status |-> 503, error |-> "TTS not initialized"]
    ELSE IF NotAString(text) THEN [status |-> 400, error |-> "required"]
    ELSE IF file = "missing"
    THEN [status |-> 400, error |-> "Voice style not found"]
    ELSE IF file = "malformed"
    THEN [status |-> 500, error |-> "Failed to load voice style"]
    ELSE [status |-> 200, error |-> ""]

\* ------------------------------------------------------------------------
\* Batch mode: POST /stream and the WebSocket message {type: "synthesize"}
\* ------------------------------------------------------------------------

\* the locals of a batch request that passed its checks
BatchTask(body, file, ws) ==
    [Idle EXCEPT !.kind = "synthesize", !.ws = ws, !.req = nreq + 1,
                 !.input = body.text, !.file = file,
                 !.style = OrDefault(body.voice, "undefined", DEFAULT_VOICE),
                 !.steps = OrDefault(body.steps, 0, DEFAULT_STEPS),
                 !.speed = OrDefault(body.speed, 0, DEFAULT_SPEED),
                 !.chunks = chunkText(body.text.str, 0)]

\* (mutant) the final event counts the chunks of the text
EndOfStream_AllChunks(tk) ==
    [type |-> "end", totalDuration |-> tk.totalDuration,
     totalChunks |-> Len(tk.chunks)]

\* the final event of POST /stream
EndOfStream(tk) ==
    [type |-> "end", totalDuration |-> tk.totalDuration,
     totalChunks |-> tk.chunkIndex]

\* the stream of an accepted POST request opens
Opened == [NoResponse EXCEPT !.status = 200]

\* the loop test of streamAudioChunks: the next chunk goes to the engine,
\* or the loop is over and the stream ends
StreamLoopTest(t, tk, r, events, cs) ==
    IF tk.i < Len(tk.chunks)
    THEN Update(t, [tk EXCEPT !.pc = "stream_infer"], r, events, FALSE,
                Append(cs, InferCall(tk, tk.chunks[tk.i + 1])))
    ELSE Update(t, [tk EXCEPT !.pc = "done"], r,
                events \o << EndOfStream(tk) >>, TRUE, cs)

\* the end of one iteration of the loop: left by break, or on to i + 1
StreamLoopNext(t, tk, events, cs, break) ==
    IF break
    THEN Update(t, [tk EXCEPT !.pc = "done"], res[t],
                events \o << EndOfStream(tk) >>, TRUE, cs)
    ELSE StreamLoopTest(t, [tk EXCEPT !.i = @ + 1], res[t], events, cs)

\* app.post('/stream')
PostStream(t, body, file) ==
    /\ Free(t)
    /\ nreq < Len(heap)
    /\ IF Precondition(body.text, file).status # 200
       THEN Reject(t, "synthesize", body.text, file,
                   Precondition(body.text, file).status,
                   Precondition(body.text, file).error)
       ELSE /\ StreamLoopTest(t, BatchTask(body, file, FALSE), Opened,
                   << [type |-> "start",
                       totalChunks |-> Len(BatchTask(body, file, FALSE).chunks)] >>,
                   << >>)
            /\ lines' = [lines EXCEPT ![t] = << >>]
            /\ nreq' = nreq + 1
            /\ UNCHANGED <<server, conversations, heap>>

\* (mutant) the audio event is written before the chunk event
StreamChunkEvents_AudioFirst(tk, duration) ==
    << [type |-> "audio", chunkIndex |-> tk.i + 1,
        data |-> AudioData(tk.chunks[tk.i + 1], duration)],
       [type |-> "chunk", chunkIndex |-> tk.i + 1,
        totalChunks |-> Len(tk.chunks), duration |-> duration,
        sampleRate |-> "sampleRate"] >>

\* the events of one synthesized chunk of POST /stream
StreamChunkEvents(tk, duration) ==
    << [type |-> "chunk", chunkIndex |-> tk.i + 1,
        totalChunks |-> Len(tk.chunks), duration |-> duration,
        sampleRate |-> "sampleRate"],
       [type |-> "audio", chunkIndex |-> tk.i + 1,
        data |-> AudioData(tk.chunks[tk.i + 1], duration)] >>

\* the silence event between chunks
SilenceEvent ==
    [type |-> "silence", duration |-> silenceDuration,
     data |-> AudioData(<< >>, silenceDuration)]

\* (mutant) every chunk is followed by silence
SilenceAfter_Every(tk) == tk.i < Len(tk.chunks)

\* a chunk is followed by silence, except the last chunk
SilenceAfter(tk) == tk.i < Len(tk.chunks) - 1

\* (mutant) the catch block does not leave the loop
StreamBreaks_Continue == FALSE

\* the catch block of the loop of streamAudioChunks ends with break
StreamBreaks == TRUE

\* streamAudioChunks: the engine answered for chunks[i]
StreamInferReturn(t, outcome) ==
    /\ task[t].pc = "stream_infer"
    /\ LET tk == task[t]
           cs == Returned(calls[t], outcome)
       IN  IF outcome.ok
           THEN StreamLoopNext(t,
                    [tk EXCEPT !.chunkIndex = @ + 1,
                               !.totalDuration = @ + outcome.duration
                                   + (IF SilenceAfter(tk) THEN silenceDuration ELSE 0)],
                    StreamChunkEvents(tk, outcome.duration)
                        \o (IF SilenceAfter(tk) THEN << SilenceEvent >> ELSE << >>),
                    cs, FALSE)
           ELSE StreamLoopNext(t, tk,
                    << [type |-> "error", message |-> "engine error",
                        chunkIndex |-> tk.i + 1] >>,
                    cs, StreamBreaks)
    /\ UNCHANGED <<server, conversations, heap, nreq, lines>>

\* (mutant) the frame counts the chunks from 0
WsChunkEvents_FromZero(tk, duration) ==
    << [type |-> "chunk", chunkIndex |-> tk.i,
        totalChunks |-> Len(tk.chunks), duration |-> duration,
        sampleRate |-> "sampleRate",
        data |-> AudioData(tk.chunks[tk.i + 1], duration)] >>

\* the frame of one synthesized chunk of a WebSocket synthesize message
WsChunkEvents(tk, duration) ==
    << [type |-> "chunk", chunkIndex |-> tk.i + 1,
        totalChunks |-> Len(tk.chunks), duration |-> duration,
        sampleRate |-> "sampleRate",
        data |-> AudioData(tk.chunks[tk.i + 1], duration)] >>

\* the loop of the synthesize branch: its test, and the end of an iteration
WsLoopTest(t, tk, r, events, cs) ==
    IF tk.i < Len(tk.chunks)
    THEN Update(t, [tk EXCEPT !.pc = "ws_infer"], r, events, FALSE,
                Append(cs, InferCall(tk, tk.chunks[tk.i + 1])))
    ELSE Update(t, [tk EXCEPT !.pc = "done"], r,
                events \o << [type |-> "end"] >>, FALSE, cs)

WsLoopNext(t, tk, events, cs, break) ==
    IF break
    THEN Update(t, [tk EXCEPT !.pc = "done"], res[t],
                events \o << [type |-> "end"] >>, FALSE, cs)
    ELSE WsLoopTest(t, [tk EXCEPT !.i = @ + 1], res[t], events, cs)

\* a WebSocket request is answered with one error frame
WsError(t, kind, input, file, message) ==
    /\ task' = [task EXCEPT ![t] =
                   [Idle EXCEPT !.pc = "done", !.kind = kind, !.ws = TRUE,
                                !.req = nreq + 1, !.input = input,
                                !.file = file]]
    /\ res' = [res EXCEPT ![t] =
                  [NoResponse EXCEPT
                      !.events = << [type |-> "error", message |-> message] >>]]
    /\ calls' = [calls EXCEPT ![t] = << >>]

\* the checks of a WebSocket message before its stream starts
WsPrecondition(file) ==
    IF ~textToSpeech THEN "TTS not initialized"
    ELSE IF file = "missing" THEN "Voice style not found"
    ELSE IF file = "malformed" THEN "Failed to load voice style"
    ELSE "ok"

\* wss.on('connection'), a message {type: "synthesize"}
WsSynthesize(t, data, file) ==
    /\ Free(t)
    /\ nreq < Len(heap)
    /\ IF WsPrecondition(file) # "ok"
       THEN WsError(t, "synthesize", data.text, file, WsPrecondition(file))
       ELSE IF data.text.type # "string"
       \* chunkText throws, and the handler's catch reports it
       THEN WsError(t, "synthesize", data.text, file,
                    "chunkText expects a string")
       ELSE WsLoopTest(t, BatchTask(data, file, TRUE), NoResponse,
                << [type |-> "start",
                    totalChunks |-> Len(BatchTask(data, file, TRUE).chunks)] >>,
                << >>)
    /\ lines' = [lines EXCEPT ![t] = << >>]
    /\ nreq' = nreq + 1
    /\ UNCHANGED <<server, conversations, heap>>

\* the synthesize branch: the engine answered for chunks[i]
WsInferReturn(t, outcome) ==
    /\ task[t].pc = "ws_infer"
    /\ LET tk == task[t]
           cs == Returned(calls[t], outcome)
       IN  IF outcome.ok
           THEN WsLoopNext(t, tk,
                    WsChunkEvents(tk, outcome.duration)
                        \o (IF SilenceAfter(tk) THEN << SilenceEvent >> ELSE << >>),
                    cs, FALSE)
           ELSE WsLoopNext(t, tk,
                    << [type |-> "error", message |-> "engine error",
                        chunkIndex |-> tk.i + 1] >>,
                    cs, TRUE)
    /\ UNCHANGED <<server, conversations, heap, nreq, lines>>

\* ------------------------------------------------------------------------
\* Conversational mode: POST /conversation and the WebSocket message
\* {type: "conversation"} (streamOllamaToSpeech, streamOllamaToSpeechWebSocket)
\* ------------------------------------------------------------------------

\* systemPrompt && typeof systemPrompt === 'string' ? systemPrompt : DEFAULT_SYSTEM_PROMPT
\* (an absent prompt is the empty text)
promptToUse(systemPrompt) ==
    IF systemPrompt # << >> THEN systemPrompt ELSE DEFAULT_SYSTEM_PROMPT

\* (mutant) the new histories share one array
MessagesRef_Shared(conversationId) ==
    IF conversations[conversationId] = 0 THEN 1
    ELSE conversations[conversationId]

\* (mutant) every turn works on a copy of its own
MessagesRef_Fresh(conversationId) == nreq + 1

\* the array the turn works on: the stored one, or a new one (request n
\* allocates array n)
MessagesRef(conversationId) ==
    IF conversations[conversationId] = 0 THEN nreq + 1
    ELSE conversations[conversationId]

\* a message; turn (history) names the turn that pushed it: the number of
\* its request and its conversation
Message(role, content, n, conversationId) ==
    [role |-> role, content |-> content,
     turn |-> [n |-> n, sid |-> conversationId]]

\* (mutant) the system prompt goes first whatever the history holds
WithSystemPrompt_Always(messages, systemPrompt, conversationId) ==
    << Message("system", promptToUse(systemPrompt), nreq + 1,
               conversationId) >> \o messages

\* the system prompt goes first into an empty history
WithSystemPrompt(messages, systemPrompt, conversationId) ==
    IF Len(messages) = 0
    THEN << Message("system", promptToUse(systemPrompt), nreq + 1,
                    conversationId) >>
    ELSE messages

\* the locals of a conversational request that passed its checks
ConversationTask(body, file, ws) ==
    [Idle EXCEPT !.pc = "health", !.kind = "conversation", !.ws = ws,
                 !.req = nreq + 1,
                 !.input = body.message, !.file = file,
                 !.before = heap[MessagesRef(body.conversationId)],
                 !.conversationId = body.conversationId,
                 !.messages = MessagesRef(body.conversationId),
                 !.model = OrDefault(body.model, "undefined", DEFAULT_MODEL),
                 !.style = OrDefault(body.voice, "undefined", DEFAULT_VOICE),
                 !.steps = OrDefault(body.steps, 0, DEFAULT_STEPS),
                 !.speed = OrDefault(body.speed, 0, DEFAULT_SPEED)]

\* the start of streamOllamaToSpeech, up to its first await: the history is
\* fetched or created, the system prompt and the user message are pushed,
\* conversation_start is written and the liveness check is sent
StartTurn(t, body, file, ws) ==
    /\ heap' = [heap EXCEPT ![MessagesRef(body.conversationId)] =
                   Append(WithSystemPrompt(@, body.systemPrompt,
                                           body.conversationId),
                          Message("user", body.message.str, nreq + 1,
                                  body.conversationId))]
    /\ Update(t, ConversationTask(body, file, ws),
              IF ws THEN NoResponse ELSE Opened,
              << [type |-> "conversation_start",
                  conversationId |-> body.conversationId] >>,
              FALSE, << [fn |-> "health", result |-> "pending"] >>)
    /\ UNCHANGED <<server, conversations>>

\* app.post('/conversation')
PostConversation(t, body, file) ==
    /\ Free(t)
    /\ nreq < Len(heap)
    /\ IF Precondition(body.message, file).status # 200
       THEN Reject(t, "conversation", body.message, file,
                   Precondition(body.message, file).status,
                   Precondition(body.message, file).error)
       ELSE /\ StartTurn(t, body, file, FALSE)
            /\ lines' = [lines EXCEPT ![t] = << >>]
            /\ nreq' = nreq + 1

\* wss.on('connection'), a message {type: "conversation"}
WsConversation(t, data, file) ==
    /\ Free(t)
    /\ nreq < Len(heap)
    /\ IF WsPrecondition(file) # "ok"
       THEN /\ WsError(t, "conversation", data.message, file,
                       WsPrecondition(file))
            /\ UNCHANGED <<server, conversations, heap>>
       ELSE StartTurn(t, data, file, TRUE)
    /\ lines' = [lines EXCEPT ![t] = << >>]
    /\ nreq' = nreq + 1

\* (mutant) the function is left without res.end()
Leave_NoEnd(t, tk, events, cs) ==
    Update(t, [tk EXCEPT !.pc = "done"], res[t], events, FALSE, cs)

\* the function is left: the SSE response is ended, the socket stays open
Leave(t, tk, events, cs) ==
    Update(t, [tk EXCEPT !.pc = "done"], res[t], events, ~tk.ws, cs)

\* the error event of the failed liveness check
OllamaNotRunning ==
    [type |-> "error", message |-> "Ollama is not running! Please start Ollama"]

\* the liveness check of cs has been answered
Checked(cs, ok) == [cs EXCEPT ![Len(cs)].result = IF ok THEN "ok" ELSE "fail"]

\* the chat call is sent, with the messages of the turn
ChatCall(t, tk, events, cs) ==
    Update(t, [tk EXCEPT !.pc = "chat"], res[t], events, FALSE,
           Append(cs, [fn |-> "chat", model |-> tk.model,
                       messages |-> heap[tk.messages]]))

\* (mutant) the failed liveness check is reported, and the chat call is
\* sent all the same
ConvHealthReturn_FallsThrough(t, ok) ==
    /\ task[t].pc = "health"
    /\ ChatCall(t, task[t], IF ok THEN << >> ELSE << OllamaNotRunning >>,
                Checked(calls[t], ok))
    /\ UNCHANGED <<server, conversations, heap, nreq, lines>>

\* the liveness check is answered; a failure (fetch throws, or the status
\* is not ok) is reported and ends the request
ConvHealthReturn(t, ok) ==
    /\ task[t].pc = "health"
    /\ IF ok THEN ChatCall(t, task[t], << >>, Checked(calls[t], ok))
       ELSE Leave(t, task[t], << OllamaNotRunning >>, Checked(calls[t], ok))
    /\ UNCHANGED <<server, conversations, heap, nreq, lines>>

\* the chat call is answered: "ok", "status" (a status that is not ok; the
\* error text is awaited next) or "throw" (fetch throws, the outer catch
\* reports it)
ConvChatReturn(t, answer) ==
    /\ task[t].pc = "chat"
    /\ IF answer = "ok"
       THEN Update(t, [task[t] EXCEPT !.pc = "read"], res[t], << >>, FALSE, calls[t])
       ELSE IF answer = "status"
       THEN Update(t, [task[t] EXCEPT !.pc = "errtext"], res[t], << >>, FALSE,
                   Append(calls[t], [fn |-> "text"]))
       ELSE Leave(t, task[t],
                  << [type |-> "error", message |-> "fetch failed"] >>, calls[t])
    /\ UNCHANGED <<server, conversations, heap, nreq, lines>>

\* ollamaResponse.text() is answered and the error is thrown to the outer catch
ConvErrorText(t) ==
    /\ task[t].pc = "errtext"
    /\ Leave(t, task[t],
             << [type |-> "error", message |-> "Ollama API error"] >>, calls[t])
    /\ UNCHANGED <<server, conversations, heap, nreq, lines>>

\* the assistant message is stored and conversation_end is written
FinishTurn(t, tk, events, cs) ==
    /\ heap' = [heap EXCEPT ![tk.messages] =
                   Append(@, Message("assistant", tk.fullResponse, tk.req,
                                     tk.conversationId))]
    /\ conversations' = [conversations EXCEPT ![tk.conversationId] = tk.messages]
    /\ Update(t, [tk EXCEPT !.pc = "read"], res[t],
              events \o << [type |-> "conversation_end",
                            fullResponse |-> tk.fullResponse] >>,
              FALSE, cs)

\* if (data.done): the remaining text goes to the engine, then the turn is stored
DoneCheck(t, tk, events, cs, done) ==
    IF done /\ trim(tk.currentSentence) # << >>
    THEN /\ Update(t, [tk EXCEPT !.pc = "conv_infer", !.final = TRUE,
                                 !.phrase = trim(tk.currentSentence)],
                   res[t], events, FALSE,
                   Append(cs, InferCall(tk, trim(tk.currentSentence))))
         /\ UNCHANGED <<conversations, heap>>
    ELSE IF done THEN FinishTurn(t, tk, events, cs)
    ELSE /\ Update(t, [tk EXCEPT !.pc = "read"], res[t], events, FALSE, cs)
         /\ UNCHANGED <<conversations, heap>>

\* if (data.message && data.message.content): the content is appended,
\* text_chunk is written and the phrase detection runs
ContentLine(t, tk, line) ==
    LET full == tk.fullResponse \o line.content
        sentence == tk.currentSentence \o line.content
        tk1 == [tk EXCEPT !.fullResponse = full, !.currentSentence = sentence]
        ev == << [type |-> "text_chunk", text |-> line.content,
                  fullText |-> full] >>
        d == PhraseDetection(sentence)
        tk2 == [tk1 EXCEPT !.currentSentence =
                               substring(sentence, d.phraseEnd, Len(sentence))]
    IN  IF d.threw
        \* caught by catch (parseError): on to the next line
        THEN /\ Update(t, tk1, res[t], ev, FALSE, calls[t])
             /\ UNCHANGED <<conversations, heap>>
        ELSE IF d.shouldGenerate /\ d.phraseEnd > 0
        THEN IF CompletePhrase(sentence, d.phraseEnd) # << >>
             THEN /\ Update(t, [tk2 EXCEPT
                                   !.pc = "conv_infer", !.final = FALSE,
                                   !.phrase = CompletePhrase(sentence, d.phraseEnd),
                                   !.lineDone = line.done],
                            res[t], ev, FALSE,
                            Append(calls[t],
                                InferCall(tk, CompletePhrase(sentence, d.phraseEnd))))
                  /\ UNCHANGED <<conversations, heap>>
             ELSE DoneCheck(t, tk2, ev, calls[t], line.done)
        ELSE DoneCheck(t, tk1, ev, calls[t], line.done)

\* (mutant) a line that is no JSON goes to the outer catch
ConvLine_ParseErrorReported(t, line) ==
    /\ task[t].pc = "read"
    /\ Len(lines[t]) < MaxLines
    /\ lines' = [lines EXCEPT ![t] = Append(@, line)]
    /\ IF ~line.json
       THEN /\ Leave(t, task[t],
                     << [type |-> "error", message |-> "Unexpected token"] >>,
                     calls[t])
            /\ UNCHANGED <<conversations, heap>>
       ELSE IF line.content # << >>
       THEN ContentLine(t, task[t], line)
       ELSE DoneCheck(t, task[t], << >>, calls[t], line.done)
    /\ UNCHANGED <<server, nreq>>

\* (mutant) the engine is called without await: the loop reads the next
\* line while the call is in flight
ConvLine_NoAwait(t, line) ==
    /\ task[t].pc \in {"read", "conv_infer"}
    /\ Len(lines[t]) < MaxLines
    /\ lines' = [lines EXCEPT ![t] = Append(@, line)]
    /\ IF ~line.json
       THEN /\ Update(t, task[t], res[t], << >>, FALSE, calls[t])
            /\ UNCHANGED <<conversations, heap>>
       ELSE IF line.content # << >>
       THEN ContentLine(t, task[t], line)
       ELSE DoneCheck(t, task[t], << >>, calls[t], line.done)
    /\ UNCHANGED <<server, nreq>>

\* the body of the stream loop for one line of the backend (each body chunk
\* carries one complete line)
ConvLine(t, line) ==
    /\ task[t].pc = "read"
    /\ Len(lines[t]) < MaxLines
    /\ lines' = [lines EXCEPT ![t] = Append(@, line)]
    /\ IF ~line.json
       \* JSON.parse throws: continue
       THEN /\ Update(t, task[t], res[t], << >>, FALSE, calls[t])
            /\ UNCHANGED <<conversations, heap>>
       ELSE IF line.content # << >>
       THEN ContentLine(t, task[t], line)
       ELSE DoneCheck(t, task[t], << >>, calls[t], line.done)
    /\ UNCHANGED <<server, nreq>>

\* (mutant) the failure of the engine is reported to the client
ttsErrorEvents_Reported == << [type |-> "error", message |-> "engine error"] >>

\* what is written when the engine fails for a phrase: nothing (the error
\* is logged)
ttsErrorEvents == << >>

\* the engine answered for a phrase of the turn
ConvInferReturn(t, outcome) ==
    /\ task[t].pc = "conv_infer"
    /\ LET tk == task[t]
           cs == Returned(calls[t], outcome)
           events ==
               IF outcome.ok
               THEN << [type |-> "audio", text |-> tk.phrase,
                        duration |-> outcome.duration,
                        sampleRate |-> "sampleRate",
                        data |-> AudioData(tk.phrase, outcome.duration)] >>
               ELSE ttsErrorEvents
       IN  IF tk.final THEN FinishTurn(t, tk, events, cs)
           ELSE DoneCheck(t, tk, events, cs, tk.lineDone)
    /\ UNCHANGED <<server, nreq, lines>>

\* the body stream of the backend ends: the loop and the function are left
ConvStreamEnd(t) ==
    /\ task[t].pc = "read"
    /\ Leave(t, task[t], << >>, calls[t])
    /\ UNCHANGED <<server, conversations, heap, nreq, lines>>

\* the body stream of the backend fails: the outer catch reports it
ConvStreamError(t) ==
    /\ task[t].pc = "read"
    /\ Leave(t, task[t],
             << [type |-> "error", message |-> "stream failed"] >>, calls[t])
    /\ UNCHANGED <<server, conversations, heap, nreq, lines>>

\* ------------------------------------------------------------------------
\* Inputs and specifications
\* ------------------------------------------------------------------------

\* JavaScript values of a request field: a string, or no string
Str(s) == [type |-> "string", str |-> s]

Undefined == [type |-> "undefined", str |-> << >>]

\* what the file system holds for the voice of a request
Files == {"ok", "missing", "malformed"}

\* the answers of the engine: a duration in milliseconds, or an exception
Durations == {400, 700}

Outcomes ==
    [ok : {TRUE}, duration : Durations] \cup {[ok |-> FALSE, duration |-> 0]}

\* the lines of the backend: a JSON object with message.content and done,
\* or a line that does not parse
Line(content, done) == [json |-> TRUE, content |-> content, done |-> done]

BadLine == [json |-> FALSE, content |-> << >>, done |-> FALSE]

Hello == <<"H", "e", "l", "l", "o">>

There == <<" ", "t", "h", "e", "r", "e", ".">>

Hi == <<"H", "i">>

\* a request body of POST /stream or of a synthesize message
BatchBody(text) ==
    [text |-> text, voice |-> "undefined", steps |-> 0, speed |-> 0]

\* a request body of POST /conversation or of a conversation message
ConversationBody(message, conversationId) ==
    [message |-> message, conversationId |-> conversationId,
     model |-> "undefined", voice |-> "undefined", steps |-> 0, speed |-> 0,
     systemPrompt |-> << >>]

\* texts of one, two and three sentences, blank text, and no text
OneSentence == <<"H", "i", ".">>

TwoSentences == <<"H", "i", ".", " ", "Y", "o", "u", "?">>

ThreeSentences ==
    <<"H", "i", ".", " ", "M", "r", ".", " ", "X", "!", "\n", "\n", "O", "k">>

Blank == <<" ">>

Start == \E loaded \in BOOLEAN : StartServer(loaded)

\* batch requests of the given texts by the given tasks, the engine
\* answering with outcomes
BatchNext(posts, sockets, texts, files, outcomes) ==
    \/ \E t \in posts, text \in texts, file \in files :
           PostStream(t, BatchBody(text), file)
    \/ \E t \in sockets, text \in texts, file \in files :
           WsSynthesize(t, BatchBody(text), file)
    \/ \E t \in posts, outcome \in outcomes : StreamInferReturn(t, outcome)
    \/ \E t \in sockets, outcome \in outcomes : WsInferReturn(t, outcome)

\* the steps of the turns in progress, the backend streaming up to maxLines
\* lines of lineSet and the engine answering with outcomes
TurnNext(lineSet, maxLines, outcomes) ==
    \/ \E t \in Tasks, ok \in BOOLEAN : ConvHealthReturn(t, ok)
    \/ \E t \in Tasks, answer \in {"ok", "status", "throw"} :
           ConvChatReturn(t, answer)
    \/ \E t \in Tasks : ConvErrorText(t)
    \/ \E t \in Tasks, line \in lineSet :
           Len(lines[t]) < maxLines /\ ConvLine(t, line)
    \/ \E t \in Tasks, outcome \in outcomes : ConvInferReturn(t, outcome)
    \/ \E t \in Tasks : ConvStreamEnd(t)
    \/ \E t \in Tasks : ConvStreamError(t)

\* conversational requests: task t asks for the conversation ids[t]
ConversationNext(posts, sockets, messages, ids, files) ==
    \/ \E t \in posts, message \in messages, file \in files :
           PostConversation(t, ConversationBody(message, ids[t]), file)
    \/ \E t \in sockets, message \in messages, file \in files :
           WsConversation(t, ConversationBody(message, ids[t]), file)

\* the number of lines of a backend stream in the specifications of
\* several requests
ShortLines == 2

\* one duration, or an exception
ShortOutcomes == {[ok |-> TRUE, duration |-> 400], [ok |-> FALSE, duration |-> 0]}

\* the backend lines of a short stream: content, and the completion marker
ShortLineSet == {Line(Hi, FALSE), Line(<< >>, TRUE)}

\* Spec: one client after the other, over HTTP and over the socket, with
\* valid and invalid requests
Next ==
    \/ Start
    \/ BatchNext({1}, {1}, {Str(TwoSentences), Str(<< >>), Undefined}, Files,
                 ShortOutcomes)
    \/ ConversationNext({1}, {1}, {Str(Hi), Str(<< >>), Undefined},
                        [t \in Tasks |-> "t1"], Files)
    \/ TurnNext(ShortLineSet, ShortLines, ShortOutcomes)

Spec == Init /\ [][Next]_vars

\* SpecSessions: two clients with a conversation each, turn after turn
NextSessions ==
    \/ Start
    \/ ConversationNext({1}, {2}, {Str(Hi)}, [t \in Tasks |-> SidOf[t]], {"ok"})
    \/ TurnNext(ShortLineSet, ShortLines, ShortOutcomes)

SpecSessions == Init /\ [][NextSessions]_vars

\* SpecBatch: POST /stream and a synthesize message side by side
NextBatch ==
    \/ Start
    \/ BatchNext({1}, {2},
                 {Str(OneSentence), Str(TwoSentences), Str(ThreeSentences),
                  Str(Blank)},
                 {"ok"}, Outcomes)

SpecBatch == Init /\ [][NextBatch]_vars

\* SpecTurn: one conversational turn, over HTTP or over the socket
NextTurn ==
    \/ Start
    \/ nreq = 0 /\ ConversationNext({1}, {1}, {Str(Hi)}, [t \in Tasks |-> "t1"], {"ok"})
    \/ TurnNext({Line(Hello, FALSE), Line(There, FALSE), Line(There, TRUE),
                 Line(<< >>, TRUE), BadLine},
                MaxLines, ShortOutcomes)

SpecTurn == Init /\ [][NextTurn]_vars

\* ------------------------------------------------------------------------
\* Properties
\* ------------------------------------------------------------------------

\* the events written so far by handler invocation t
Events(t) == res[t].events

\* the places of the events of a type
Indices(evs, type) == { j \in 1 .. Len(evs) : evs[j].type = type }

\* the types of the events, in order
Types(evs) == [j \in 1 .. Len(evs) |-> evs[j].type]

\* the backend has streamed its completion marker to t
MarkerReached(t) ==
    \E j \in 1 .. Len(lines[t]) : lines[t][j].json /\ lines[t][j].done

\* the engine calls of t
InferCalls(t) == { k \in 1 .. Len(calls[t]) : calls[t][k].fn = "_infer" }

IsPost(t, kind) ==
    task[t].kind = kind /\ ~task[t].ws /\ res[t].status = 200

IsSocket(t, kind) ==
    /\ task[t].kind = kind
    /\ task[t].ws
    /\ task[t].file = "ok"
    /\ task[t].input.type = "string"

\* C1: a conversational turn whose backend stream reaches its completion
\* marker emits conversation_start first, then text_chunk and audio events,
\* then conversation_end with the full response, then an end event as its
\* last event; for the fragments "Hello" and " there." (with done) there is
\* exactly one audio event, for "Hello there.".
C1_CompletedTurnEvents ==
    \A t \in Tasks :
        LET evs == Events(t)
            n == Len(evs)
        IN  ( /\ task[t].kind = "conversation"
              /\ task[t].pc = "done"
              /\ MarkerReached(t)
              /\ Indices(evs, "error") = {} )
            => /\ n >= 3
               /\ evs[1] = [type |-> "conversation_start",
                            conversationId |-> task[t].conversationId]
               /\ evs[n].type = "end"
               /\ evs[n - 1] = [type |-> "conversation_end",
                                fullResponse |-> task[t].fullResponse]
               /\ \A j \in 2 .. (n - 2) : evs[j].type \in {"text_chunk", "audio"}
               /\ ( /\ lines[t] = << Line(Hello, FALSE), Line(There, TRUE) >>
                    /\ \A k \in InferCalls(t) : calls[t][k].result = "ok" )
                  => \E j \in 1 .. n :
                         /\ Indices(evs, "audio") = {j}
                         /\ evs[j].text = Hello \o There

\* C2: the events of POST /stream follow Start (Chunk{i} Audio{i}
\* Silence?)* Error? End: start comes first and carries the number of
\* phrases of chunkText, the chunk indices are 1, 2, ..., chunk i comes
\* right before audio i, and exactly one end is written, last.
C2_StreamGrammar ==
    \A t \in Tasks :
        LET evs == Events(t)
            n == Len(evs)
        IN  IsPost(t, "synthesize")
            => /\ n >= 1
               /\ evs[1] = [type |-> "start",
                            totalChunks |-> Len(chunkText(task[t].input.str, 0))]
               /\ \A j \in 1 .. n :
                      /\ evs[j].type \in {"start", "chunk", "audio", "silence",
                                          "error", "end"}
                      /\ evs[j].type = "start" => j = 1
                      /\ evs[j].type = "chunk"
                             => /\ evs[j - 1].type \in {"start", "audio", "silence"}
                                /\ evs[j].chunkIndex
                                       = Cardinality(Indices(SubSeq(evs, 1, j), "chunk"))
                                /\ j < n
                                /\ evs[j + 1].type = "audio"
                                /\ evs[j + 1].chunkIndex = evs[j].chunkIndex
                      /\ evs[j].type = "audio" => evs[j - 1].type = "chunk"
                      /\ evs[j].type = "silence" => evs[j - 1].type = "audio"
                      /\ evs[j].type = "error"
                             => /\ evs[j - 1].type \in {"start", "audio", "silence"}
                                /\ j = n - 1
                      /\ evs[j].type = "end" => j = n
               /\ (task[t].pc = "done") = (evs[n].type = "end")
               /\ res[t].ended = (evs[n].type = "end")

\* a stream of POST /stream with two chunks, silence, an engine failure and end
C2_Witness ==
    \E t \in Tasks :
        /\ IsPost(t, "synthesize")
        /\ Types(Events(t))
               = <<"start", "chunk", "audio", "silence", "error", "end">>

\* the batch request t has finished, and the engine failed for its chunk k
FailedAt(t, k) ==
    /\ task[t].kind = "synthesize"
    /\ task[t].pc = "done"
    /\ k \in InferCalls(t)
    /\ calls[t][k].result = "throw"

\* C3: in batch mode, when the engine fails for phrase i, an error event
\* with index i is written and processing continues: the later phrases
\* i+1 .. n are still sent to the engine.
C3_ContinuesAfterFailure ==
    \A t \in Tasks : \A k \in 1 .. Len(calls[t]) :
        FailedAt(t, k)
        => /\ \E j \in Indices(Events(t), "error") : Events(t)[j].chunkIndex = k
           /\ \A i \in 1 .. Len(task[t].chunks) :
                  \E c \in InferCalls(t) : calls[t][c].text = task[t].chunks[i]

\* C3, amended: when the engine fails for phrase i, an error event with
\* index i is written and processing stops: no later phrase is sent to the
\* engine, and the error event is followed by the end event only.
C3_StopsAfterFailure ==
    \A t \in Tasks : \A k \in 1 .. Len(calls[t]) :
        FailedAt(t, k)
        => LET evs == Events(t)
               n == Len(evs)
           IN  /\ k = Len(calls[t])
               /\ n >= 3
               /\ evs[n - 1] = [type |-> "error", message |-> "engine error",
                                chunkIndex |-> k]
               /\ evs[n].type = "end"
               /\ \A j \in Indices(evs, "chunk") : evs[j].chunkIndex < k

\* the engine failed for the first of three phrases
C3_Witness ==
    \E t \in Tasks :
        /\ FailedAt(t, 1)
        /\ Len(task[t].chunks) = 3
        /\ ~task[t].ws

\* a POST /stream request a and a synthesize message b of the same text,
\* voice, steps and speed, both finished, the engine having behaved the same
SameBatch(a, b) ==
    /\ IsPost(a, "synthesize")
    /\ IsSocket(b, "synthesize")
    /\ task[a].pc = "done"
    /\ task[b].pc = "done"
    /\ task[a].input = task[b].input
    /\ task[a].style = task[b].style
    /\ task[a].steps = task[b].steps
    /\ task[a].speed = task[b].speed
    /\ calls[a] = calls[b]

\* C7: a synthesize message is answered with the same events, of the same
\* types and fields, as POST /stream.
C7_SameEvents ==
    \A a, b \in Tasks : SameBatch(a, b) => Events(a) = Events(b)

\* the events of POST /stream with each chunk and its audio event merged
\* into one chunk frame, and the totals of the end event left out
RECURSIVE Merged(_)
Merged(evs) ==
    IF evs = << >> THEN << >>
    ELSE IF Head(evs).type = "chunk"
    THEN << [type |-> "chunk", chunkIndex |-> evs[1].chunkIndex,
             totalChunks |-> evs[1].totalChunks, duration |-> evs[1].duration,
             sampleRate |-> evs[1].sampleRate, data |-> evs[2].data] >>
             \o Merged(Tail(Tail(evs)))
    ELSE IF Head(evs).type = "end"
    THEN << [type |-> "end"] >> \o Merged(Tail(evs))
    ELSE << Head(evs) >> \o Merged(Tail(evs))

\* C7, amended: for the same non-empty text a synthesize message is
\* answered with the events of POST /stream, except that each chunk event
\* carries the audio data itself (there is no audio event) and the end
\* event carries no totals.
C7_SameEventsMerged ==
    \A a, b \in Tasks : SameBatch(a, b) => Merged(Events(a)) = Events(b)

\* both transports have answered a text of three sentences, the engine
\* failing for the last one
C7_Witness ==
    \E a, b \in Tasks :
        /\ SameBatch(a, b)
        /\ Len(calls[a]) = 3
        /\ calls[a][3].result = "throw"

\* the roles and contents of a history
Plain(h) == [j \in 1 .. Len(h) |-> [role |-> h[j].role, content |-> h[j].content]]

\* the number of conversation_end events of t
Ends(t) == Cardinality(Indices(Events(t), "conversation_end"))

\* the assistant messages that the turn of t has pushed
Stored(t) ==
    { j \in 1 .. Len(heap[task[t].messages]) :
          /\ heap[task[t].messages][j].role = "assistant"
          /\ heap[task[t].messages][j].turn.n = task[t].req }

\* t is a conversational turn that passed the checks of its request
IsTurn(t) == task[t].kind = "conversation" /\ task[t].messages # 0

\* t is a turn that is over, the backend having streamed its completion marker
Completed(t) ==
    /\ IsTurn(t)
    /\ task[t].pc = "done"
    /\ MarkerReached(t)
    /\ Indices(Events(t), "error") = {}

\* C4: after a completed turn on a brand-new session the session reads
\* [system, U, A], and after a completed turn on a session that read h it
\* reads h, U, A: k turns in sequence leave [system, U1, A1, ..., Uk, Ak].
C4_HistoryAfterCompletedTurns ==
    \A t \in Tasks :
        Completed(t)
        => Plain(GetConversation(task[t].conversationId))
               = (IF task[t].before = << >>
                  THEN << [role |-> "system", content |-> DEFAULT_SYSTEM_PROMPT] >>
                  ELSE Plain(task[t].before))
                 \o << [role |-> "user", content |-> task[t].input.str],
                       [role |-> "assistant", content |-> task[t].fullResponse] >>

\* C5: whatever lines the backend streams, a turn stores one assistant
\* message and writes one conversation_end, no more, and only when the
\* completion marker has been received; a turn that received the marker
\* has done so when it is over.
C5_OneUpdatePerTurn ==
    \A t \in Tasks :
        IsTurn(t)
        => /\ Ends(t) <= 1
           /\ Cardinality(Stored(t)) = Ends(t)
           /\ Ends(t) >= 1 => MarkerReached(t)
           /\ Completed(t) => Ends(t) = 1

\* C6: turns on distinct conversations work on distinct arrays, and every
\* array, stored or being worked on, holds only messages of the turns of
\* its own conversation, in the order of those turns.
C6_DistinctSessionsIsolated ==
    /\ \A a, b \in Tasks :
           ( /\ IsTurn(a)
             /\ IsTurn(b)
             /\ task[a].conversationId # task[b].conversationId )
           => task[a].messages # task[b].messages
    /\ \A t \in Tasks :
           IsTurn(t)
           => \A j \in 1 .. Len(heap[task[t].messages]) :
                  heap[task[t].messages][j].turn.sid = task[t].conversationId
    /\ \A id \in SessionIds :
           \A j \in 1 .. Len(GetConversation(id)) :
               /\ GetConversation(id)[j].turn.sid = id
               /\ j > 1 => GetConversation(id)[j - 1].turn.n
                               <= GetConversation(id)[j].turn.n

\* two turns on two conversations are in progress at once, each having
\* stored its history
C6_Witness ==
    /\ task[1].pc = "read"
    /\ task[2].pc = "read"
    /\ task[1].conversationId # task[2].conversationId
    /\ Len(GetConversation(task[1].conversationId)) >= 3
    /\ Len(GetConversation(task[2].conversationId)) >= 3

\* the liveness check of the turn of t has failed
HealthFailed(t) ==
    /\ IsTurn(t)
    /\ calls[t] # << >>
    /\ calls[t][1].result = "fail"

\* C8: when the liveness check fails, the events are conversation_start and
\* one error event with the fixed message, the request is over, and neither
\* the chat call nor the engine has been called.
C8_HealthFailure ==
    \A t \in Tasks :
        HealthFailed(t)
        => /\ Events(t) = << [type |-> "conversation_start",
                              conversationId |-> task[t].conversationId],
                             OllamaNotRunning >>
           /\ calls[t] = << [fn |-> "health", result |-> "fail"] >>
           /\ task[t].pc = "done"
           /\ res[t].ended = ~task[t].ws

\* the liveness check of a POST /conversation request has failed
C8_Witness ==
    \E t \in Tasks : HealthFailed(t) /\ ~task[t].ws /\ res[t].ended

\* the engine calls of t that have thrown
Thrown(t) == { k \in InferCalls(t) : calls[t][k].result = "throw" }

\* C9: when the engine fails for a phrase of a turn, an error event is
\* written for it: a turn has as many error events as failed engine calls.
C9_ErrorEventOnFailure ==
    \A t \in Tasks :
        IsTurn(t)
        => Cardinality(Indices(Events(t), "error")) >= Cardinality(Thrown(t))

\* C9, amended: when the engine fails for a phrase of a turn, no error
\* event is written for it (the failure is logged), and the turn goes on:
\* the request is not left, and after the failure of the last phrase the
\* assistant message is stored and conversation_end is written.
C9_FailureIsSilent ==
    [][ \A t \in Tasks :
            ( /\ IsTurn(t)
              /\ task[t].pc = "conv_infer"
              /\ Thrown(t)' # Thrown(t) )
            => /\ Indices(Events(t)', "error") = Indices(Events(t), "error")
               /\ Indices(Events(t)', "audio") = Indices(Events(t), "audio")
               /\ task'[t].pc \in {"read", "conv_infer"}
               /\ task[t].final
                      => /\ Ends(t)' = Ends(t) + 1
                         /\ Events(t)' = Append(Events(t),
                                [type |-> "conversation_end",
                                 fullResponse |-> task[t].fullResponse])
                         /\ Stored(t)' # Stored(t)
                         /\ conversations'[task[t].conversationId]
                                = task[t].messages ]_vars

\* the engine failed for a phrase of a turn, which went on to
\* conversation_end and to one more engine call
C9_Witness ==
    \E t \in Tasks :
        /\ IsTurn(t)
        /\ Ends(t) >= 1
        /\ \E k \in Thrown(t) : \E c \in InferCalls(t) : c > k

\* the POST request of t failed a precondition
Invalid(t) ==
    /\ task[t].kind \in {"synthesize", "conversation"}
    /\ ~task[t].ws
    /\ NotAString(task[t].input) \/ task[t].file # "ok"

\* C10: a POST request that fails a precondition is answered with an HTTP
\* error status and a JSON body; no event is written, neither the engine
\* nor the backend is called, and the step that answers it leaves the
\* conversations as they are.
C10_RejectedBeforeStream ==
    /\ [](\A t \in Tasks :
              Invalid(t)
              => /\ res[t].status \in {400, 500, 503}
                 /\ res[t].error # ""
                 /\ res[t].ended
                 /\ Events(t) = << >>
                 /\ calls[t] = << >>
                 /\ task[t].pc = "done")
    /\ [][ \A t \in Tasks :
               (task'[t] # task[t] /\ Invalid(t)')
               => /\ conversations' = conversations
                  /\ heap' = heap ]_vars

\* a POST /conversation request is rejected for its voice style, a
\* conversation being stored
C10_Witness ==
    \E t \in Tasks :
        /\ Invalid(t)
        /\ task[t].kind = "conversation"
        /\ res[t].status = 500
        /\ conversations["t1"] # 0

\* ------------------------------------------------------------------------
\* SpecLive: POST /stream (task 1) and POST /conversation (task 2) side by
\* side, every external call being answered in the end: the engine, the
\* liveness check, the chat call, the error text, and the body stream of
\* the backend, which ends or fails
\* ------------------------------------------------------------------------

NextLive ==
    \/ Start
    \/ \E text \in {Str(TwoSentences), Str(Blank)} :
           PostStream(1, BatchBody(text), "ok")
    \/ \E outcome \in ShortOutcomes : StreamInferReturn(1, outcome)
    \/ PostConversation(2, ConversationBody(Str(Hi), "t1"), "ok")
    \/ TurnNext(ShortLineSet, ShortLines, ShortOutcomes)

Answered(t) ==
    /\ WF_vars(\E outcome \in ShortOutcomes : StreamInferReturn(t, outcome))
    /\ WF_vars(\E ok \in BOOLEAN : ConvHealthReturn(t, ok))
    /\ WF_vars(\E answer \in {"ok", "status", "throw"} : ConvChatReturn(t, answer))
    /\ WF_vars(ConvErrorText(t))
    /\ WF_vars(\E outcome \in ShortOutcomes : ConvInferReturn(t, outcome))
    /\ WF_vars(ConvStreamEnd(t) \/ ConvStreamError(t))

SpecLive == Init /\ [][NextLive]_vars /\ \A t \in Tasks : Answered(t)

\* C11: the response of every POST /stream and POST /conversation request
\* that passed its checks is ended in the end, every external call being
\* answered.
C11_ResponseEnded ==
    \A t \in Tasks : (res[t].status = 200 /\ ~task[t].ws) ~> res[t].ended

\* a POST /conversation response is ended after a backend stream without
\* completion marker, and a POST /stream response after an engine failure
C11_Witness ==
    /\ res[2].ended
    /\ lines[2] = << Line(Hi, FALSE) >>
    /\ task[2].kind = "conversation"
    /\ res[1].ended
    /\ Indices(Events(1), "error") # {}

\* the contents of the well-formed lines, one after the other
RECURSIVE Contents(_)
Contents(ls) ==
    IF ls = << >> THEN << >>
    ELSE (IF Head(ls).json THEN Head(ls).content ELSE << >>) \o Contents(Tail(ls))

\* the lines that are JSON and carry content
ContentLines(ls) ==
    { j \in 1 .. Len(ls) : ls[j].json /\ ls[j].content # << >> }

\* C12: a line of the backend that is no JSON writes no event, leaves the
\* full response, the pending text, the calls and the conversations as
\* they are, and the loop goes on reading: every well-formed line with
\* content, before or after it, has its text_chunk and its place in the
\* full response.
C12_MalformedLineSkipped ==
    /\ [][ \A t \in Tasks :
               lines'[t] = Append(lines[t], BadLine)
               => /\ Events(t)' = Events(t)
                  /\ task'[t] = task[t]
                  /\ task'[t].pc = "read"
                  /\ calls' = calls
                  /\ heap' = heap
                  /\ conversations' = conversations ]_vars
    /\ [](\A t \in Tasks :
              IsTurn(t)
              => /\ Cardinality(Indices(Events(t), "text_chunk"))
                        = Cardinality(ContentLines(lines[t]))
                 /\ task[t].fullResponse = Contents(lines[t]))

\* a malformed line, then a well-formed one with its text_chunk
C12_Witness ==
    \E t \in Tasks :
        /\ IsTurn(t)
        /\ lines[t] = << BadLine, Line(Hello, FALSE) >>
        /\ Types(Events(t)) = << "conversation_start", "text_chunk" >>

\* ------------------------------------------------------------------------
\* SpecDetect: two turns over the socket whose backends stream the same
\* texts in different fragments; task 1 receives a text in one fragment,
\* task 2 in any fragments
\* ------------------------------------------------------------------------

HelloWorld ==
    <<"H", "e", "l", "l", "o", " ", "w", "o", "r", "l", "d", ".", " ",
      "T", "h", "i", "s", " ", "i", "s", " ", "g", "r", "e", "a", "t", "!">>

\* 85 characters without punctuation, with one space, at offset 40
RunOn == [j \in 1 .. 85 |-> IF j = 41 THEN " " ELSE "a"]

ThreeShort == <<"a", ".", " ", "b", ".", " ", "c">>

DetectTexts == {HelloWorld, RunOn, ThreeShort, Hi}

\* the ends of the fragments of a text: anywhere in a short text, every 13
\* characters in a long one
FragmentEnds(text) ==
    { b \in 1 .. Len(text) :
          b = Len(text) \/ Len(text) <= Len(ThreeShort) \/ b % 13 = 0 }

\* the backend of t streams the next fragment of a text, up to offset b
Fragment(t, text, b) ==
    /\ Len(task[t].fullResponse) < b
    /\ task[t].fullResponse = SubSeq(text, 1, Len(task[t].fullResponse))
    /\ t = 1 => task[t].fullResponse = << >> /\ b = Len(text)
    /\ \A j \in 1 .. Len(lines[t]) : ~lines[t][j].done
    /\ ConvLine(t, Line(substring(text, Len(task[t].fullResponse), b), FALSE))

\* the backend of t streams its completion marker, once
Marker(t) ==
    /\ \A j \in 1 .. Len(lines[t]) : ~lines[t][j].done
    /\ ConvLine(t, Line(<< >>, TRUE))

NextDetect ==
    \/ Start
    \/ \E t \in Tasks :
           /\ task[t].pc = "idle"
           /\ WsConversation(t, ConversationBody(Str(Hi), SidOf[t]), "ok")
    \/ \E t \in Tasks : ConvHealthReturn(t, TRUE)
    \/ \E t \in Tasks : ConvChatReturn(t, "ok")
    \/ \E t \in Tasks, text \in DetectTexts :
           \E b \in FragmentEnds(text) : Fragment(t, text, b)
    \/ \E t \in Tasks : Marker(t)
    \/ \E t \in Tasks : ConvInferReturn(t, [ok |-> TRUE, duration |-> 400])
    \/ \E t \in Tasks : ConvStreamEnd(t)

SpecDetect == Init /\ [][NextDetect]_vars

\* the phrases of the turn of t: the texts sent to the engine, in order
Phrases(t) ==
    LET infers == SelectSeq(calls[t], LAMBDA c : c.fn = "_infer")
    IN  [k \in 1 .. Len(infers) |-> infers[k].text]

\* the backend of t has streamed fragments and then its completion marker,
\* and the remaining text has been through the engine
Flushed(t) ==
    /\ IsTurn(t)
    /\ lines[t] # << >>
    /\ lines[t][Len(lines[t])] = Line(<< >>, TRUE)
    /\ \A j \in 1 .. (Len(lines[t]) - 1) : lines[t][j].json /\ ~lines[t][j].done
    /\ task[t].pc \in {"read", "done"}

\* C13: "Hello world. This is great!" in one fragment yields two phrases,
\* "Hello world." and "This is great!".
C13_OnePhrasePerSentence ==
    \A t \in Tasks :
        (Flushed(t) /\ lines[t][1] = Line(HelloWorld, FALSE))
        => Phrases(t) = << SubSeq(HelloWorld, 1, 12), SubSeq(HelloWorld, 14, 27) >>

\* C14: a text in one fragment and the same text in several fragments,
\* each followed by the final flush, yield the same phrases.
C14_FragmentIndependent ==
    \A a, b \in Tasks :
        ( /\ Flushed(a)
          /\ Flushed(b)
          /\ task[a].fullResponse = task[b].fullResponse )
        => Phrases(a) = Phrases(b)

\* "a. b. c" in one fragment, and in the fragments "a. " and "b. c"
C14_Witness ==
    /\ Flushed(1)
    /\ Flushed(2)
    /\ lines[1] = << Line(ThreeShort, FALSE), Line(<< >>, TRUE) >>
    /\ lines[2] = << Line(SubSeq(ThreeShort, 1, 3), FALSE),
                     Line(SubSeq(ThreeShort, 4, 7), FALSE), Line(<< >>, TRUE) >>
    /\ Phrases(1) # << >>

\* C15: 85 characters without punctuation and with a space at offset 40
\* are cut at offset 40: the first phrase is the 40 characters before the
\* space.
C15_CutAtWordBoundary ==
    \A t \in Tasks :
        (IsTurn(t) /\ lines[t] # << >> /\ lines[t][1] = Line(RunOn, FALSE))
        => /\ Phrases(t) # << >>
           /\ Phrases(t)[1] = SubSeq(RunOn, 1, 40)

\* ------------------------------------------------------------------------
\* SpecModes: batch requests (task 1, over HTTP and over the socket) next
\* to conversational turns (task 2)
\* ------------------------------------------------------------------------

NextModes ==
    \/ Start
    \/ BatchNext({1}, {1},
                 {Str(OneSentence), Str(ThreeSentences), Str(Blank)},
                 {"ok"}, ShortOutcomes)
    \/ ConversationNext({2}, {2}, {Str(Hi)}, [t \in Tasks |-> "t1"], {"ok"})
    \/ TurnNext(ShortLineSet, ShortLines, ShortOutcomes)

SpecModes == Init /\ [][NextModes]_vars

\* the engine calls of t that have succeeded
Succeeded(t) == { k \in InferCalls(t) : calls[t][k].result = "ok" }

\* t is a batch request that passed its checks
IsBatch(t) ==
    /\ task[t].kind = "synthesize"
    /\ task[t].file = "ok"
    /\ task[t].input.type = "string"
    /\ task[t].ws \/ res[t].status = 200

\* the silence events of t are of 0.3 s, each right after the audio of a
\* phrase, and none right before the end event
SilenceBetween(t) ==
    \A j \in 1 .. Len(Events(t)) :
        /\ Events(t)[j].type = "silence"
               => /\ Events(t)[j].duration = silenceDuration
                  /\ Events(t)[j - 1].type = (IF task[t].ws THEN "chunk" ELSE "audio")
        /\ (Events(t)[j].type = "end" /\ j > 1)
               => Events(t)[j - 1].type # "silence"

\* C16: a finished batch stream of n successfully synthesized phrases has
\* n-1 silence events, each of 0.3 s after a phrase, none before the end
\* event; a conversational turn has no silence event.
C16_SilenceCount ==
    \A t \in Tasks :
        /\ (IsBatch(t) /\ task[t].pc = "done")
               => /\ SilenceBetween(t)
                  /\ Succeeded(t) # {}
                         => Cardinality(Indices(Events(t), "silence"))
                                = Cardinality(Succeeded(t)) - 1
        /\ task[t].kind = "conversation" => Indices(Events(t), "silence") = {}

\* C16, amended: a silence event of 0.3 s follows each successfully
\* synthesized phrase that is not the last phrase of the text, and no
\* other: n-1 silence events when all n phrases succeed, k-1 when the
\* engine fails for phrase k; none is right before the end event, and a
\* conversational turn has none.
C16_SilenceAfterAllButLast ==
    \A t \in Tasks :
        /\ IsBatch(t)
               => /\ SilenceBetween(t)
                  /\ Cardinality(Indices(Events(t), "silence"))
                         = Cardinality({ k \in Succeeded(t) :
                                             k < Len(task[t].chunks) })
                  /\ (task[t].pc = "done" /\ Thrown(t) = {} /\ task[t].chunks # << >>)
                         => Cardinality(Indices(Events(t), "silence"))
                                = Len(task[t].chunks) - 1
                  /\ \A k \in Thrown(t) :
                         Cardinality(Indices(Events(t), "silence")) = k - 1
        /\ task[t].kind = "conversation" => Indices(Events(t), "silence") = {}

\* three phrases, the engine failing for the third, next to a turn that
\* has written its audio
C16_Witness ==
    /\ IsBatch(1)
    /\ task[1].pc = "done"
    /\ Thrown(1) = {3}
    /\ Cardinality(Indices(Events(1), "silence")) = 2
    /\ Indices(Events(2), "audio") # {}

\* the sum of the duration fields of the events of a type
RECURSIVE SumDurations(_, _)
SumDurations(evs, type) ==
    IF evs = << >> THEN 0
    ELSE (IF Head(evs).type = type THEN Head(evs).duration ELSE 0)
             + SumDurations(Tail(evs), type)

\* C17: the end event of POST /stream carries the sum of the durations of
\* the chunk events plus 0.3 s for every silence event, and the number of
\* audio events.
C17_EndTotals ==
    \A t \in Tasks :
        (IsPost(t, "synthesize") /\ task[t].pc = "done")
        => LET evs == Events(t)
           IN  /\ evs[Len(evs)].type = "end"
               /\ evs[Len(evs)].totalDuration
                      = SumDurations(evs, "chunk")
                            + silenceDuration * Cardinality(Indices(evs, "silence"))
               /\ evs[Len(evs)].totalChunks = Cardinality(Indices(evs, "audio"))

\* two phrases of different durations and the silence between them, then
\* an engine failure
C17_Witness ==
    \E t \in Tasks :
        /\ IsPost(t, "synthesize")
        /\ task[t].pc = "done"
        /\ Events(t)[Len(Events(t))].totalDuration = 400 + 700 + 2 * silenceDuration
        /\ Events(t)[Len(Events(t))].totalChunks = 2
        /\ Len(task[t].chunks) = 3

\* ------------------------------------------------------------------------
\* The conversations over HTTP: DELETE and GET /conversation/:conversationId
\* ------------------------------------------------------------------------

\* res.json(body): the request of t is answered with status 200 and body
Json(t, kind, conversationId, body) ==
    /\ task' = [task EXCEPT ![t] =
                   [Idle EXCEPT !.pc = "done", !.kind = kind,
                                !.req = nreq,
                                !.conversationId = conversationId,
                                !.before = GetConversation(conversationId)]]
    /\ res' = [res EXCEPT ![t] =
                  [NoResponse EXCEPT !.status = 200, !.events = << body >>,
                                     !.ended = TRUE]]
    /\ calls' = [calls EXCEPT ![t] = << >>]
    /\ lines' = [lines EXCEPT ![t] = << >>]

\* (mutant) conversations.clear()
AppDeleteConversation_Clear(t, conversationId) ==
    /\ Free(t)
    /\ conversations' = [id \in DOMAIN conversations |-> 0]
    /\ Json(t, "delete", conversationId,
            [type |-> "json", success |-> TRUE, message |-> "Conversation cleared"])
    /\ UNCHANGED <<server, heap, nreq>>

\* app.delete('/conversation/:conversationId')
AppDeleteConversation(t, conversationId) ==
    /\ Free(t)
    /\ conversations' = [conversations EXCEPT ![conversationId] = 0]
    /\ Json(t, "delete", conversationId,
            [type |-> "json", success |-> TRUE, message |-> "Conversation cleared"])
    /\ UNCHANGED <<server, heap, nreq>>

\* app.get('/conversation/:conversationId')
AppGetConversation(t, conversationId) ==
    /\ Free(t)
    /\ Json(t, "get", conversationId,
            [type |-> "json", conversationId |-> conversationId,
             messages |-> Plain(GetConversation(conversationId))])
    /\ UNCHANGED <<server, conversations, heap, nreq>>

\* SpecStore: turns on two conversations (task 1), and DELETE and GET
\* requests in between and meanwhile (task 2)
NextStore ==
    \/ Start
    \/ \E id \in SessionIds :
           PostConversation(1, ConversationBody(Str(Hi), id), "ok")
    \/ ConvHealthReturn(1, TRUE)
    \/ ConvChatReturn(1, "ok")
    \/ \E line \in ShortLineSet :
           Len(lines[1]) < ShortLines /\ ConvLine(1, line)
    \/ ConvInferReturn(1, [ok |-> TRUE, duration |-> 400])
    \/ ConvStreamEnd(1)
    \/ \E id \in SessionIds : AppDeleteConversation(2, id)
    \/ \E id \in SessionIds : AppGetConversation(2, id)

SpecStore == Init /\ [][NextStore]_vars

\* the step is the answer to a request of the kind, by t, for id
Answers(t, kind, id) ==
    /\ task'[t].kind = kind
    /\ task'[t].conversationId = id
    /\ <<task[t], res[t]>> # <<task'[t], res'[t]>>

\* C18: DELETE /conversation/:id is answered with success, for a known and
\* for an unknown id; it leaves id without history and the other
\* conversations and all arrays as they are; on an id without history it
\* changes nothing (twice is as once); a GET of id is answered with the
\* stored messages of id: with an empty list in the state that DELETE
\* leaves.
C18_DeleteIdempotent ==
    [][ \A t \in Tasks, id \in SessionIds :
            /\ Answers(t, "delete", id)
                   => /\ res'[t].status = 200
                      /\ res'[t].events[1].success
                      /\ res'[t].ended
                      /\ GetConversation(id)' = << >>
                      /\ \A o \in SessionIds \ {id} :
                             conversations'[o] = conversations[o]
                      /\ heap' = heap
                      /\ conversations[id] = 0 => conversations' = conversations
            /\ Answers(t, "get", id)
                   => /\ res'[t].status = 200
                      /\ res'[t].events[1].messages = Plain(GetConversation(id))
                      /\ conversations[id] = 0
                             => res'[t].events[1].messages = << >>
                      /\ conversations' = conversations
                      /\ heap' = heap ]_vars

\* the known conversation t1 has been deleted and then read, and t2 is
\* still stored
C18_Witness ==
    /\ task[2].kind = "get"
    /\ task[2].conversationId = "t1"
    /\ res[2].events[1].messages = << >>
    /\ \E r \in DOMAIN heap :
           /\ Len(heap[r]) >= 3
           /\ heap[r][1].turn.sid = "t1"
           /\ conversations["t2"] # r
    /\ Len(GetConversation("t2")) >= 3

\* ------------------------------------------------------------------------
\* Requests without conversationId
\* ------------------------------------------------------------------------

\* the readings of Date.now()
Clock == DOMAIN GeneratedIds

\* conversationId = `conv_${Date.now()}` in the destructuring of the body
DefaultConversationId(body, now) ==
    [body EXCEPT !.conversationId =
                     IF @ = "undefined" THEN GeneratedIds[now] ELSE @]

\* app.post('/conversation'), Date.now() reading now
PostConversationAt(t, body, file, now) ==
    PostConversation(t, DefaultConversationId(body, now), file)

\* a message {type: "conversation"}, Date.now() reading now
WsConversationAt(t, data, file, now) ==
    WsConversation(t, DefaultConversationId(data, now), file)

\* SpecFresh: two clients that send no conversationId, over HTTP (task 1)
\* and over the socket (task 2)
NextFresh ==
    \/ Start
    \/ \E now \in Clock :
           PostConversationAt(1, ConversationBody(Str(Hi), "undefined"), "ok", now)
    \/ \E now \in Clock :
           WsConversationAt(2, ConversationBody(Str(Hi), "undefined"), "ok", now)
    \/ \E t \in Tasks : ConvHealthReturn(t, TRUE)
    \/ \E t \in Tasks : ConvChatReturn(t, "ok")
    \/ \E t \in Tasks, line \in ShortLineSet :
           Len(lines[t]) < ShortLines /\ ConvLine(t, line)
    \/ \E t \in Tasks : ConvInferReturn(t, [ok |-> TRUE, duration |-> 400])
    \/ \E t \in Tasks : ConvStreamEnd(t)

SpecFresh == Init /\ [][NextFresh]_vars

\* C19: two conversation requests that send no conversationId are given
\* distinct ids, and never work on the same history.
C19_FreshIds ==
    \A a, b \in Tasks :
        (a # b /\ IsTurn(a) /\ IsTurn(b))
        => /\ task[a].conversationId # task[b].conversationId
           /\ task[a].messages # task[b].messages
           /\ \A j \in 1 .. Len(heap[task[a].messages]) :
                  heap[task[a].messages][j].turn.n = task[a].req

\* ------------------------------------------------------------------------
\* SpecSegment: chunkText applied to every text of up to MaxTextLen
\* characters, with every maximum length up to MaxSegLen
\* ------------------------------------------------------------------------

MaxTextLen == 5

MaxSegLen == 5

SegAlphabet == {"a", ".", " ", "\n"}

RECURSIVE TextsOfLen(_)
TextsOfLen(n) ==
    IF n = 0 THEN { << >> }
    ELSE { Append(s, c) : s \in TextsOfLen(n - 1), c \in SegAlphabet }

SegTexts == UNION { TextsOfLen(n) : n \in 0 .. MaxTextLen }

\* a call chunkText(text, maxLen) and what it returns
Segment(t, text, maxLen) ==
    /\ server = "listening"
    /\ task[t].pc = "idle"
    /\ task' = [task EXCEPT ![t] =
                   [Idle EXCEPT !.pc = "done", !.kind = "segment",
                                !.input = Str(text),
                                !.chunks = chunkText(text, maxLen)]]
    /\ calls' = [calls EXCEPT ![t] =
                    << [fn |-> "chunkText", text |-> text, maxLen |-> maxLen] >>]
    /\ res' = [res EXCEPT ![t] = NoResponse]
    /\ lines' = [lines EXCEPT ![t] = << >>]
    /\ UNCHANGED <<server, conversations, heap, nreq>>

NextSegment ==
    \/ Start
    \/ /\ task[1].pc = "idle"
       /\ \E text \in SegTexts, maxLen \in 0 .. MaxSegLen :
              Segment(1, text, maxLen)

SpecSegment == Init /\ [][NextSegment]_vars

\* the sentence units of the paragraphs, in order
RECURSIVE SentenceUnits(_)
SentenceUnits(paragraphs) ==
    IF paragraphs = << >> THEN << >>
    ELSE (IF trim(Head(paragraphs)) = << >> THEN << >>
          ELSE SplitSentences(trim(Head(paragraphs)), 0))
             \o SentenceUnits(Tail(paragraphs))

\* C20: chunkText returns no empty and no untrimmed phrase, and no phrase
\* longer than the maximum but a single sentence unit; with maximum 0 its
\* phrases are the sentence units, one each; an empty or blank text gives
\* no phrase.
C20_SegmenterBounds ==
    \A t \in Tasks :
        task[t].kind = "segment"
        => LET text == calls[t][1].text
               maxLen == calls[t][1].maxLen
               chunks == task[t].chunks
               units == SentenceUnits(SplitParagraphs(trim(text), 0))
           IN  /\ \A k \in 1 .. Len(chunks) :
                      /\ chunks[k] # << >>
                      /\ chunks[k] = trim(chunks[k])
                      /\ \/ Len(chunks[k]) <= maxLen
                         \/ \E u \in 1 .. Len(units) : chunks[k] = units[u]
               /\ maxLen = 0 => chunks = units
               /\ trim(text) = << >> => chunks = << >>

\* a sentence longer than the maximum is kept whole, and the next sentence
\* is a phrase of its own
C20_Witness ==
    /\ task[1].kind = "segment"
    /\ calls[1][1].text = <<"a", "a", ".", " ", "a">>
    /\ calls[1][1].maxLen = 2
    /\ task[1].chunks = << <<"a", "a", ".">>, <<"a">> >>

\* a backend that streams long fragments without a sentence ending
GrowLineSet == { Line(RunOn, FALSE), Line(HelloWorld, FALSE), Line(<< >>, TRUE) }

NextGrow ==
    \/ Start
    \/ ConversationNext({1}, {2}, {Str(Hi)}, SidOf, {"ok"})
    \/ TurnNext(GrowLineSet, MaxLines, ShortOutcomes)

SpecGrow == Init /\ [][NextGrow]_vars

\* the longest fragment of GrowLineSet
MaxFragmentLen == Len(RunOn)

\* the length at which Priority 4 cuts in any case, and one fragment more
PendingBound == (13 * maxPhraseLength) \div 10 + MaxFragmentLen

\* C21: while the backend streams fragments of bounded length, the text
\* pending in the detector stays within a bound that depends on the
\* thresholds and on the longest fragment only: after every fragment
\* currentSentence is at most PendingBound long.
C21_PendingBounded ==
    \A t \in Tasks :
        IsTurn(t) => Len(task[t].currentSentence) <= PendingBound

\* the cascade of Priority 1 to Priority 4 over s, as it would decide
Cascade(s) ==
    Priority4(s, Priority3(s, Priority2half(s, Priority2(s, Priority1(s)))))

\* C22: on each fragment the cascade is repeated against the remaining
\* tail until no rule matches: after a fragment has been processed no
\* rule of the cascade applies to the text left in currentSentence, and a
\* fragment with several boundaries ("Hello world. This is great!") has
\* yielded several phrases by then.
C22_CascadeExhausted ==
    \A t \in Tasks :
        ( /\ IsTurn(t)
          /\ task[t].pc = "read"
          /\ lines[t] # << >>
          /\ ~MarkerReached(t) )
        => /\ ~Cascade(task[t].currentSentence).shouldGenerate
           /\ lines[t][1] = Line(HelloWorld, FALSE) => Len(Phrases(t)) >= 2

\* the number of characters sent to the engine by the calls cs
RECURSIVE Synthesized(_)
Synthesized(cs) ==
    IF cs = << >> THEN 0
    ELSE (IF Head(cs).fn = "_infer" THEN Len(Head(cs).text) ELSE 0)
             + Synthesized(Tail(cs))

\* the turn of t has just processed a completion marker
Flushing(t) ==
    /\ IsTurn(t)
    /\ task[t].pc = "read"
    /\ lines[t] # << >>
    /\ lines[t][Len(lines[t])] = Line(<< >>, TRUE)

\* C23: processing the completion marker flushes and resets the detector:
\* currentSentence is empty afterwards, and no text is sent to the engine
\* twice, whatever lines or markers follow: the engine never receives more
\* characters than the backend has streamed.
C23_FlushResets ==
    \A t \in Tasks :
        /\ Flushing(t) => task[t].currentSentence = << >>
        /\ IsTurn(t) => Synthesized(calls[t]) <= Len(task[t].fullResponse)

\* the engine calls of t that have not been answered
InFlight(t) == { k \in InferCalls(t) : calls[t][k].result = "pending" }

\* the texts of the audio events of t, in order
AudioTexts(t) ==
    LET IsAudio(e) == e.type = "audio"
        evs == SelectSeq(Events(t), IsAudio)
    IN  [j \in 1 .. Len(evs) |-> evs[j].text]

\* the phrases of t that the engine has synthesized, in the order of the calls
SynthesizedPhrases(t) ==
    LET IsOk(c) == c.fn = "_infer" /\ c.result = "ok"
        cs == SelectSeq(calls[t], IsOk)
    IN  [j \in 1 .. Len(cs) |-> cs[j].text]

\* C24: within one conversational request at most one engine call is in
\* flight, and it is the latest one; the audio events carry the
\* synthesized phrases in the order in which they were sent to the engine;
\* and neither is the next backend line read nor the next phrase sent to
\* the engine while a call is in flight.
C24_OneCallInFlight ==
    /\ [](\A t \in Tasks :
             IsTurn(t)
             => /\ InFlight(t) \subseteq {Len(calls[t])}
                /\ InFlight(t) # {} <=> task[t].pc = "conv_infer"
                /\ AudioTexts(t) = SynthesizedPhrases(t))
    /\ [][ \A t \in Tasks :
               (IsTurn(t) /\ InFlight(t) # {})
               => /\ lines'[t] = lines[t]
                  /\ Len(calls'[t]) = Len(calls[t]) ]_vars

\* a turn with two audio events, the text_chunk of the first phrase written
\* before its audio
C24_Witness ==
    \E t \in Tasks :
        /\ IsTurn(t)
        /\ Len(AudioTexts(t)) >= 2
        /\ \E j \in Indices(Events(t), "text_chunk") :
               \A k \in Indices(Events(t), "audio") : j < k

\* one connection: the tasks are the runs of its message handler, one for
\* each message of the client, and what they send goes to the one socket
NextSocket ==
    \/ Start
    \/ \E t \in Tasks, text \in {Str(OneSentence), Str(TwoSentences)} :
           WsSynthesize(t, BatchBody(text), "ok")
    \/ \E t \in Tasks, outcome \in ShortOutcomes : WsInferReturn(t, outcome)
    \/ \E t \in Tasks :
           WsConversation(t, ConversationBody(Str(Hi), SidOf[t]), "ok")
    \/ TurnNext(ShortLineSet, ShortLines, ShortOutcomes)

SpecSocket == Init /\ [][NextSocket]_vars

\* the handler of a has sent its first frame and waits for the engine,
\* after whose answer it sends at least one more frame (end, or
\* conversation_end)
Processing(a) ==
    /\ task[a].ws
    /\ Events(a) # << >>
    /\ \/ task[a].kind = "synthesize" /\ task[a].pc = "ws_infer"
       \/ task[a].kind = "conversation" /\ task[a].pc = "conv_infer"
              /\ task[a].final

\* C25: one connection runs one request at a time: while a message of a
\* socket is being processed, between its first and its last frame, no
\* frame of another message of that socket is sent.
C25_OneInvocationPerSocket ==
    [][ \A a, b \in Tasks :
            (a # b /\ Processing(a)) => res'[b].events = res[b].events ]_vars

\* the requests of the specification of turns on one conversation
MaxRaceRequests == MaxRequests + 1

InitRace ==
    /\ server = "starting"
    /\ conversations = [id \in Keys |-> 0]
    /\ heap = [r \in 1 .. MaxRaceRequests |-> << >>]
    /\ nreq = 0
    /\ task = [t \in Tasks |-> Idle]
    /\ res = [t \in Tasks |-> NoResponse]
    /\ calls = [t \in Tasks |-> << >>]
    /\ lines = [t \in Tasks |-> << >>]

\* what the backend streams to each of these turns, unless its stream ends
\* before
RaceStream == << Line(Hi, FALSE), Line(<< >>, TRUE) >>

\* turns on the one conversation "t1", over HTTP (1) and over a socket (2),
\* one after the other or at the same time
NextRace ==
    \/ Start
    \/ PostConversation(1, ConversationBody(Str(Hi), "t1"), "ok")
    \/ WsConversation(2, ConversationBody(Str(Hi), "t1"), "ok")
    \/ \E t \in Tasks, ok \in BOOLEAN : ConvHealthReturn(t, ok)
    \/ \E t \in Tasks, answer \in {"ok", "status"} : ConvChatReturn(t, answer)
    \/ \E t \in Tasks : ConvErrorText(t)
    \/ \E t \in Tasks :
           /\ Len(lines[t]) < Len(RaceStream)
           /\ ConvLine(t, RaceStream[Len(lines[t]) + 1])
    \/ \E t \in Tasks : ConvInferReturn(t, [ok |-> TRUE, duration |-> 400])
    \/ \E t \in Tasks : ConvStreamEnd(t)

SpecRace == InitRace /\ [][NextRace]_vars

\* the number of system messages of a history
SystemCount(h) == Cardinality({ j \in 1 .. Len(h) : h[j].role = "system" })

\* a and b are turns on the same conversation that both read an empty history
BothReadEmpty(a, b) ==
    /\ a # b
    /\ IsTurn(a)
    /\ IsTurn(b)
    /\ task[a].conversationId = task[b].conversationId
    /\ task[a].before = << >>
    /\ task[b].before = << >>

\* C26: two concurrent turns on the same new conversation both read an
\* empty history and double-inject the system message: once both have
\* stored, the stored history of the conversation holds the system message
\* twice.
C26_DoubleSystem ==
    \A a, b \in Tasks :
        (BothReadEmpty(a, b) /\ Ends(a) >= 1 /\ Ends(b) >= 1)
        => SystemCount(GetConversation(task[a].conversationId)) = 2

\* C26, amended: two concurrent turns on the same new conversation both
\* read an empty history, and each puts the system message into an array
\* of its own: no history, stored or being worked on, holds the system
\* message twice, and once both turns have stored, the stored history is
\* [system, U, A] of one of the two turns alone.
C26_SystemOnce ==
    /\ \A r \in DOMAIN heap :
           /\ SystemCount(heap[r]) <= 1
           /\ heap[r] # << >> => heap[r][1].role = "system"
    /\ \A a, b \in Tasks :
           BothReadEmpty(a, b)
           => /\ task[a].messages # task[b].messages
              /\ (Ends(a) >= 1 /\ Ends(b) >= 1)
                 => LET h == GetConversation(task[a].conversationId)
                    IN  /\ Len(h) = 3
                        /\ Types([j \in 1 .. 3 |-> [type |-> h[j].role]])
                               = <<"system", "user", "assistant">>
                        /\ \E t \in {a, b} :
                               \A j \in 1 .. 3 : h[j].turn.n = task[t].req

\* two turns on the same new conversation that both read an empty history
\* have both stored
C26_Witness ==
    \E a, b \in Tasks :
        /\ BothReadEmpty(a, b)
        /\ Ends(a) >= 1
        /\ Ends(b) >= 1
        /\ task[a].pc = "done"
        /\ task[b].pc = "done"

\* a and b are turns on the same conversation that both read a stored history
BothReadStored(a, b) ==
    /\ a # b
    /\ IsTurn(a)
    /\ IsTurn(b)
    /\ task[a].conversationId = task[b].conversationId
    /\ task[a].before # << >>
    /\ task[b].before # << >>

\* the turn of t is in progress and has not stored its assistant message
Open(t) == task[t].pc # "done" /\ Ends(t) = 0

\* t starts a turn in this step
Starts(t) == task'[t].req = nreq + 1 /\ task'[t].kind = "conversation"

\* C27: two concurrent turns on the same existing conversation interleave
\* their messages out of turn order: a turn on a conversation with a
\* stored history works on the stored array itself, to which messages are
\* only ever appended; so when a turn starts on the array of an earlier
\* turn that has not stored its assistant message, both have read a stored
\* history, and the user message of the earlier turn is followed by a
\* message of another turn and is never followed by the assistant message
\* of its own turn (U1, U2, A1, A2).
C27_Interleaved ==
    /\ [](\A a, b \in Tasks :
             ( /\ a # b
               /\ IsTurn(a)
               /\ IsTurn(b)
               /\ task[a].messages = task[b].messages
               /\ Open(a)
               /\ task[a].req < task[b].req )
             => /\ BothReadStored(a, b)
                /\ LET h == heap[task[a].messages]
                       U == { j \in 1 .. Len(h) :
                                  /\ h[j].role = "user"
                                  /\ h[j].turn.n = task[a].req }
                   IN  /\ U # {}
                       /\ \A j \in U :
                              /\ j < Len(h)
                              /\ h[j + 1].turn.n # task[a].req)
    /\ [][ /\ \A r \in DOMAIN heap :
                  /\ Len(heap'[r]) >= Len(heap[r])
                  /\ SubSeq(heap'[r], 1, Len(heap[r])) = heap[r]
           /\ \A t \in Tasks :
                  (Starts(t) /\ conversations[task'[t].conversationId] # 0)
                  => /\ task'[t].messages
                            = conversations[task'[t].conversationId]
                     /\ task'[t].before
                            = GetConversation(task'[t].conversationId) ]_vars

\* the stored history ends with U1, U2, A1, A2 of two turns
C27_Witness ==
    \E a, b \in Tasks :
        /\ BothReadStored(a, b)
        /\ LET h == GetConversation(task[a].conversationId)
               n == Len(h)
           IN  /\ n >= 4
               /\ Types([j \in 1 .. 4 |-> [type |-> h[n - 4 + j].role]])
                      = <<"user", "user", "assistant", "assistant">>
               /\ [j \in 1 .. 4 |-> h[n - 4 + j].turn.n]
                      = <<task[a].req, task[b].req, task[a].req, task[b].req>>

\* the texts of the text_chunk events of evs, concatenated
RECURSIVE ChunkTexts(_)
ChunkTexts(evs) ==
    IF evs = << >> THEN << >>
    ELSE (IF Head(evs).type = "text_chunk" THEN Head(evs).text ELSE << >>)
             \o ChunkTexts(Tail(evs))

\* one text_chunk for each line with content, each with the text so far
ChunkPerFragment(t) ==
    /\ Cardinality(Indices(Events(t), "text_chunk"))
           = Cardinality(ContentLines(lines[t]))
    /\ \A j \in Indices(Events(t), "text_chunk") :
           Events(t)[j].fullText = ChunkTexts(SubSeq(Events(t), 1, j))

\* C28: in a turn one text_chunk is written for each backend line with
\* content, the fullText of each is the concatenation of the texts of the
\* text_chunk events so far, and the fullResponse of conversation_end is
\* the concatenation of the texts of all text_chunk events of the turn and
\* the content of the assistant message stored for the turn.
C28_TextAndResponse ==
    \A t \in Tasks :
        IsTurn(t)
        => /\ ChunkPerFragment(t)
           /\ task[t].pc = "done"
              => /\ \A j \in Indices(Events(t), "conversation_end") :
                        Events(t)[j].fullResponse = ChunkTexts(Events(t))
                 /\ \A j \in Stored(t) :
                        heap[task[t].messages][j].content = ChunkTexts(Events(t))

\* the turn of t is over and has not written conversation_end: the
\* liveness check failed, the backend answered with an error status, or
\* its stream ended without the completion marker
Incomplete(t) == IsTurn(t) /\ task[t].pc = "done" /\ Ends(t) = 0

\* C29: a turn that does not complete leaves the stored histories as they
\* were before the turn, for a conversation without a stored history and
\* for one with it: no stored history holds a message of the turn, so no
\* user message stays without its assistant message.
C29_IncompleteTurnLeavesStore ==
    \A t \in Tasks :
        Incomplete(t)
        => \A id \in Keys :
               \A j \in 1 .. Len(GetConversation(id)) :
                   GetConversation(id)[j].turn.n # task[t].req

\* the history h holds a message of this role of the turn of t
Holds(h, t, role) ==
    \E j \in 1 .. Len(h) : h[j].role = role /\ h[j].turn.n = task[t].req

\* C30: no completed turn is lost: whatever the interleaving of the turns
\* on a conversation, two first turns on a new one included, the stored
\* history holds the user message and the assistant message of every turn
\* that has written conversation_end.
C30_NoCompletedTurnLost ==
    \A t \in Tasks :
        (IsTurn(t) /\ Ends(t) >= 1)
        => /\ Holds(GetConversation(task[t].conversationId), t, "user")
           /\ Holds(GetConversation(task[t].conversationId), t, "assistant")

\* the latest request of b was DELETE /conversation/id, a turn a on id was
\* in flight then, and no turn has been started since (req is the number
\* of turns started before the request)
DeletedInFlight(a, b, id) ==
    /\ a # b
    /\ task[b].kind = "delete"
    /\ task[b].conversationId = id
    /\ task[b].req = nreq
    /\ IsTurn(a)
    /\ task[a].conversationId = id

\* C31: a DELETE /conversation/:id stays in effect until a new turn is
\* started on id: GET /conversation/:id returns an empty list after it,
\* also when a turn on id was in flight at the DELETE and completes later.
C31_DeleteStays ==
    \A a, b \in Tasks, id \in SessionIds :
        DeletedInFlight(a, b, id) => GetConversation(id) = << >>

\* the characters of s that are no whitespace, in order
RECURSIVE NonWhitespace(_)
NonWhitespace(s) ==
    IF s = << >> THEN << >>
    ELSE (IF Head(s) \in Whitespace THEN << >> ELSE << Head(s) >>)
             \o NonWhitespace(Tail(s))

\* the texts ps, concatenated
RECURSIVE Concatenated(_)
Concatenated(ps) ==
    IF ps = << >> THEN << >> ELSE Head(ps) \o Concatenated(Tail(ps))

\* the backend stream of t is over and ended with its one completion marker
EndedWithMarker(t) ==
    /\ IsTurn(t)
    /\ task[t].pc = "done"
    /\ lines[t] # << >>
    /\ \A j \in 1 .. Len(lines[t]) :
           (lines[t][j].json /\ lines[t][j].done) <=> j = Len(lines[t])

\* C32: for a turn whose backend stream ends with exactly one completion
\* marker, the phrases sent to the engine, concatenated in order, are the
\* full response up to whitespace: every character of the response that
\* is no whitespace goes to the engine once, in its place.
C32_PhrasesCoverResponse ==
    \A t \in Tasks :
        EndedWithMarker(t)
        => NonWhitespace(Concatenated(Phrases(t)))
               = NonWhitespace(task[t].fullResponse)

\* C33: every phrase sent to the engine in conversational mode, cut by the
\* cascade or produced by the final flush, is at most maxPhraseLength
\* characters long, whatever fragments the backend streams.
C33_PhraseLengthBounded ==
    \A t \in Tasks :
        IsTurn(t)
        => \A k \in 1 .. Len(Phrases(t)) :
               Len(Phrases(t)[k]) <= maxPhraseLength
====
